---- MODULE Spec2Model ----
(***************************************************************************)
(* A model of slurry: the squeue differential poller (squeue_diff), the    *)
(* OCEL synthesizer (extract_ocel_from_slurm_diffs), the desktop           *)
(* application's poll loop (start_squeue_loop / stop_squeue_loop) and the  *)
(* text parsers (parse_slurm_duration, get_squeue_res).                    *)
(*                                                                         *)
(* Conventions.  Option<T> is a sequence: <<>> is None, <<v>> is Some(v).  *)
(* A NaiveDateTime / DateTime is a number of seconds.  A path (work_dir,   *)
(* command) is the sequence of its '/'-separated components.  A JobState   *)
(* is the string squeue printed: the nine closed variants are the strings  *)
(* of ClosedStates, every other string s is OTHER(s).                      *)
(* An archive file name is the record [delta, t]: "{T}.json" is            *)
(* [delta |-> FALSE, t |-> T] and "DELTA-{T}.json" is [delta |-> TRUE,     *)
(* t |-> T]; glob returns names in alphabetical order, which puts every    *)
(* "{T}.json" (it starts with a digit) before every "DELTA-..." and orders *)
(* equal prefixes by T.                                                    *)
(* A text handed to a parser (a duration, the output of squeue) is the     *)
(* sequence of its characters; a Result is None for Err and Some(v) for    *)
(* Ok(v).                                                                  *)
(***************************************************************************)
EXTENDS Integers, Sequences, FiniteSets, TLC

VARIABLES
    known_jobs,   \* squeue_diff's known_jobs: job id -> remembered SqueueRow
    all_ids,      \* squeue_diff's all_ids: every job id of a completed round
    fs_root,      \* does the archive root directory exist
    fs_ids,       \* root files "{T}.json": T -> content
    fs_jobs,      \* job id -> (file name -> content), the job subdirectories
    feed,         \* the snapshots the scheduler can return in this behaviour
    now,          \* the wall clock: the timestamp of the latest snapshot
    faults,       \* number of failures injected so far
    crashed,      \* squeue_diff returned Err or panicked: its caller has unwound
    last,         \* what the latest squeue_diff call did
    gaps,         \* job ids that were absent from a completed round after their first observation
    ocel,         \* what the latest extract_ocel_from_slurm_diffs call returned
    looping_info, \* AppState.looping_info
    client,       \* AppState.client is Some
    tasks,        \* the spawned poll-loop tasks, in spawn order
    cmd,          \* what the latest application command returned
    emitted,      \* the `squeue-rows` events published so far, in order
    input,        \* the text handed to a parser
    parsed,       \* what the parser returned for it (None: it has not run)
    closures,      \* the synthesizer's parallel closures: job id -> where it stands
    sets          \* accounts, groups, partitions, execution_hosts: RwLock<HashSet<String>>

archive_vars == <<known_jobs, all_ids, fs_root, fs_ids, fs_jobs, feed, now, faults,
                  crashed, last, gaps, ocel>>
app_vars == <<looping_info, client, tasks, cmd, emitted>>
parse_vars == <<input, parsed>>
sync_vars == <<closures, sets>>
vars == <<known_jobs, all_ids, fs_root, fs_ids, fs_jobs, feed, now, faults,
          crashed, last, gaps, ocel, looping_info, client, tasks, cmd, emitted, input, parsed,
          closures, sets>>

\* ---------------------------------------------------------------- bounds
MaxRounds == 4   \* snapshots fetched in one behaviour
MaxFaults == 1   \* failures (fetch, directory, file create, file write) in one behaviour
MaxTasks == 2    \* poll-loop tasks spawned in one behaviour
MaxDeltas == 2   \* polls of one job after its first, in an archive given to the synthesizer
MaxComp == 2     \* largest one-digit component of a duration text
MaxParts == 4    \* ':'-separated parts of a duration text
MaxLines == 2    \* lines of one squeue output

\* ---------------------------------------------------------------- values
None == <<>>
Some(v) == <<v>>

Max(S) == CHOOSE m \in S : \A x \in S : x <= m

ClosedStates == {"RUNNING", "PENDING", "COMPLETING", "COMPLETED", "CANCELLED",
                 "FAILED", "TIMEOUT", "OUT_OF_MEMORY", "NODE_FAIL"}

\* The fields of SqueueRow in declaration order.
RowFields == <<"account", "job_id", "exec_host", "min_cpus", "cpus", "nodes",
               "end_time", "dependency", "features", "array_job_id", "group",
               "step_job_id", "time_limit", "time_left", "name", "min_memory",
               "time", "priority", "partition", "state", "reason", "start_time",
               "submit_time", "work_dir", "command">>

\* #[difference(skip)]
SkippedFields == {"time_left", "time"}

\* The derive without the skip attributes: every field is compared.
DiffFields_NoSkip == RowFields

DiffFields == SelectSeq(RowFields, LAMBDA f : f \notin SkippedFields)

\* ---------------------------------------------------------------- inputs
\* A row as SqueueRow::parse_from_strs returns it for a pending job.
BaseRow(j) ==
    [account |-> "thes1234", job_id |-> j, exec_host |-> None, min_cpus |-> 1,
     cpus |-> 4, nodes |-> 1, end_time |-> None, dependency |-> None,
     features |-> "(null)", array_job_id |-> j, group |-> "grp1",
     step_job_id |-> <<j, None>>, time_limit |-> Some(3600),
     time_left |-> Some(3600), name |-> "train", min_memory |-> "4G",
     time |-> Some(0), priority |-> 1, partition |-> "c23ms",
     state |-> "PENDING", reason |-> "Priority", start_time |-> None,
     submit_time |-> 7200, work_dir |-> <<"home", "ab123456">>,
     command |-> <<"home", "ab123456", "run.sh">>]

RowA == BaseRow("1001")
\* RowA a poll later: only the volatile fields moved.
RowA2 == [RowA EXCEPT !.time = Some(30), !.time_left = Some(3570)]
\* The job has run on n001 and failed.
RowB == [RowA EXCEPT !.state = "FAILED", !.reason = "NonZeroExitCode",
                     !.exec_host = Some("n001"), !.start_time = Some(7800),
                     !.time = Some(60), !.time_left = Some(3540)]
\* Another job: running, submitted under the default account.
RowZ == [BaseRow("1002") EXCEPT !.account = "default", !.group = "grp2",
                                !.partition = "c23g", !.state = "RUNNING",
                                !.reason = "None",
                                !.exec_host = Some("n012"),
                                !.start_time = Some(7500),
                                !.work_dir = <<"rwthfs", "rz", "cluster", "home", "xy001", "runs">>,
                                !.command = <<"rwthfs", "rz", "cluster", "home", "xy001", "runs", "a.sh">>]

\* The snapshots get_squeue may return in one behaviour (Vec<SqueueRow>, in
\* output order).  One job that comes, changes and goes, the last snapshot
\* listing it twice (squeue -M all over clusters that reuse ids):
OneJobFeed == {<<>>, <<RowA>>, <<RowA2>>, <<RowB>>, <<RowA, RowB>>}
\* RowZ a poll later: only the volatile fields moved.
RowZ2 == [RowZ EXCEPT !.time = Some(90), !.time_left = Some(3510)]
\* Two jobs:
TwoJobFeed == {<<RowA>>, <<RowZ>>, <<RowA, RowZ>>, <<RowB, RowZ2>>}

Feeds == {OneJobFeed, TwoJobFeed}
\* What the loop of the application is shown: the job pending or failed.
LoopFeed == {<<RowA>>, <<RowB>>}

\* Job 1001 as squeue can show it over its life: pending with an estimated
\* start, running, requeued on another host, and in every final state.
RowAEst == [RowA EXCEPT !.start_time = Some(7700)]
RowRun == [RowA EXCEPT !.state = "RUNNING", !.reason = "None",
                       !.exec_host = Some("n001"), !.start_time = Some(7800)]
RowRun2 == [RowRun EXCEPT !.exec_host = Some("n002"), !.start_time = Some(7900)]
RowIn(state) == [RowRun EXCEPT !.state = state]
RowCancelled == [RowA EXCEPT !.state = "CANCELLED", !.reason = "None"]
\* The job runs from the start that was estimated while it was pending.
RowRunEst == [RowRun EXCEPT !.start_time = Some(7700)]
LifeRows == {RowA, RowAEst, RowRun, RowRun2, RowRunEst, RowB, RowCancelled}
            \cup {RowIn(st) : st \in {"COMPLETING", "COMPLETED", "TIMEOUT", "OUT_OF_MEMORY",
                                      "NODE_FAIL", "SUSPENDED"}}
\* Job 1002, first seen running, then failed.
RowZFailed == [RowZ2 EXCEPT !.state = "FAILED", !.reason = "NonZeroExitCode"]
\* Job 1002 moved to another account, group and partition.
RowZMoved == [RowZ2 EXCEPT !.account = "proj9", !.group = "grp3", !.partition = "c23mm"]
\* Job 1002 with its priority recomputed.
RowZAged == [RowZ2 EXCEPT !.priority = 2]
LifeRowsZ == {RowZ, RowZ2, RowZFailed, RowZMoved, RowZAged}

\* The records of one job in the polls of an archive, first to last.
Lives == UNION {[1..n -> LifeRows] \cup [1..n -> LifeRowsZ] : n \in 1..(MaxDeltas + 1)}


\* ---------------------------------------------------------------- differ
\* #[derive(Difference)]: diff lists, in field order, the fields of the
\* non-skipped set whose values are unequal, each with the new value.
Diff(p, c) ==
    LET changed == SelectSeq(DiffFields, LAMBDA f : p[f] # c[f])
    IN  [i \in 1..Len(changed) |-> <<changed[i], c[changed[i]]>>]

\* apply_mut: assign each listed field, in order.
RECURSIVE ApplyMut(_, _)
ApplyMut(row, delta) ==
    IF delta = <<>> THEN row
    ELSE ApplyMut([row EXCEPT ![Head(delta)[1]] = Head(delta)[2]], Tail(delta))

\* ---------------------------------------------------------------- files
\* serde_json::to_writer through a BufWriter: the whole value, or, when the
\* write fails, a file that was created and holds no complete JSON value.
Ser(v) == [ok |-> TRUE, val |-> v]
Corrupt == [ok |-> FALSE, val |-> <<>>]

SnapName(T) == [delta |-> FALSE, t |-> T]
DeltaName(T) == [delta |-> TRUE, t |-> T]

EmptyDir == [n \in {} |-> Corrupt]

\* ---------------------------------------------------------------- squeue_diff
RowIds(rows) == {rows[i].job_id : i \in 1..Len(rows)}

\* The diff is written without looking whether it is empty.
WorkerFile_WritesEmptyDelta(kj, T, row) ==
    IF row.job_id \in DOMAIN kj
    THEN Some([job |-> row.job_id, name |-> DeltaName(T),
               content |-> Ser(Diff(kj[row.job_id], row))])
    ELSE Some([job |-> row.job_id, name |-> SnapName(T), content |-> Ser(row)])

\* The file the worker of one row writes (None: it writes no file): a known
\* job gets DELTA-{T}.json when its diff is not empty, a new job gets {T}.json.
WorkerFile(kj, T, row) ==
    IF row.job_id \in DOMAIN kj
    THEN LET diff == Diff(kj[row.job_id], row)
         IN  IF diff # <<>>
             THEN Some([job |-> row.job_id, name |-> DeltaName(T), content |-> Ser(diff)])
             ELSE None
    ELSE Some([job |-> row.job_id, name |-> SnapName(T), content |-> Ser(row)])

\* The writes of the workers in `ws`; the write of worker `wf` fails.
Writes(kj, T, rows, ws, wf) ==
    {[worker |-> i,
      job |-> WorkerFile(kj, T, rows[i])[1].job,
      name |-> WorkerFile(kj, T, rows[i])[1].name,
      content |-> IF i = wf THEN Corrupt ELSE WorkerFile(kj, T, rows[i])[1].content]
        : i \in {k \in ws : WorkerFile(kj, T, rows[k]) # None}}

Paths(writes) == {<<w.job, w.name>> : w \in writes}

PathWriters(writes, p) == {w \in writes : <<w.job, w.name>> = p}

\* What the files hold after the workers of `writes` wrote them.  A path that
\* one worker wrote holds that worker's content.  A path that two workers
\* wrote at once holds the content of either (winner[p] is its worker) or,
\* when the contents differ, a mix of both (winner[p] = 0).
Resolutions(writes) ==
    LET workers == {w.worker : w \in writes}
        content(p, k) == IF k = 0 THEN Corrupt
                         ELSE (CHOOSE w \in writes : w.worker = k).content
        valid(winner) ==
            \A p \in Paths(writes) :
                IF winner[p] = 0
                THEN \E v, w \in PathWriters(writes, p) : v.content # w.content
                ELSE \E w \in PathWriters(writes, p) : w.worker = winner[p]
    IN  {[p \in Paths(writes) |-> content(p, winner[p])] :
            winner \in {f \in [Paths(writes) -> workers \cup {0}] : valid(f)}}

\* The job directories after create_dir_all of `dirs` and the files of `res`.
WriteFiles(jobsfs, dirs, res) ==
    [j \in DOMAIN jobsfs \cup dirs |->
        LET old == IF j \in DOMAIN jobsfs THEN jobsfs[j] ELSE EmptyDir
            names == DOMAIN old \cup {p[2] : p \in {q \in DOMAIN res : q[1] = j}}
        IN  [n \in names |-> IF <<j, n>> \in DOMAIN res THEN res[<<j, n>>] ELSE old[n]]]

\* rows.par_iter().map(..).collect() into a HashMap: of two rows with one
\* job id the later one stays.
CollectKnown(rows) ==
    [j \in RowIds(rows) |-> rows[Max({i \in 1..Len(rows) : rows[i].job_id = j})]]

\* The rows are inserted into the map of the earlier rounds.
NextKnown_Retains(kj, rows) == CollectKnown(rows) @@ kj

\* `*known_jobs = rows.par_iter().map(..).collect()`: the map of the earlier
\* rounds is replaced by the one collected from this round's rows.
NextKnown(kj, rows) == CollectKnown(rows)

\* The warning is printed for every job that is not remembered.
Reappeared_EveryNewJob(kj, ids, row) == row.job_id \notin DOMAIN kj

\* "Job re-appeared! Maybe IDs get reused?": printed by the worker of a row
\* that is not in known_jobs while its id is in all_ids.
Reappeared(kj, ids, row) == row.job_id \notin DOMAIN kj /\ row.job_id \in ids

\* The workers of `ws` that print the warning.
Warned(kj, ids, rows, ws) == {i \in ws : Reappeared(kj, ids, rows[i])}

NewJobDirs(kj, rows, ws) == {rows[i].job_id : i \in {k \in ws : rows[k].job_id \notin DOMAIN kj}}

NoRound == [result |-> "none", step |-> "none", t |-> 0, rows |-> <<>>,
            prev_known |-> <<>>, prev_ids |-> {}, writes |-> {}, warned |-> {}]

\* get_squeue().await? returns the error of the scheduler command.  Every
\* caller (the application's loop, the command-line loop) unwraps the result,
\* so no round follows an Err or a panic: `crashed`.
DiffFetchFails ==
    /\ ~crashed /\ faults < MaxFaults /\ now < MaxRounds
    /\ faults' = faults + 1
    /\ last' = [NoRound EXCEPT !.result = "err", !.step = "fetch",
                               !.prev_known = known_jobs, !.prev_ids = all_ids]
    /\ crashed' = TRUE
    /\ ocel' = None
    /\ UNCHANGED <<known_jobs, all_ids, fs_root, fs_ids, fs_jobs, feed, now, gaps>>

\* squeue_diff called on its own.
FetchFails == DiffFetchFails /\ UNCHANGED <<app_vars, parse_vars, sync_vars>>

\* create_dir_all(path)? returns the error.
DiffRootDirFails ==
    /\ ~crashed /\ faults < MaxFaults /\ now < MaxRounds
    /\ last' = [NoRound EXCEPT !.result = "err", !.step = "root", !.t = now + 1,
                               !.prev_known = known_jobs, !.prev_ids = all_ids]
    /\ faults' = faults + 1
    /\ crashed' = TRUE
    /\ ocel' = None
    /\ UNCHANGED <<known_jobs, all_ids, fs_root, fs_ids, fs_jobs, feed, now, gaps>>

\* The root directory is created after all_ids was extended.
RootDirFails_IdsExtended ==
    /\ ~crashed /\ faults < MaxFaults /\ now < MaxRounds
    /\ \E rows \in feed : all_ids' = all_ids \cup RowIds(rows)
    /\ last' = [NoRound EXCEPT !.result = "err", !.step = "root", !.t = now + 1,
                               !.prev_known = known_jobs, !.prev_ids = all_ids]
    /\ faults' = faults + 1
    /\ crashed' = TRUE
    /\ ocel' = None
    /\ UNCHANGED <<known_jobs, fs_root, fs_ids, fs_jobs, feed, now, gaps>>
    /\ UNCHANGED <<app_vars, parse_vars, sync_vars>>

\* squeue_diff called on its own.
RootDirFails == DiffRootDirFails /\ UNCHANGED <<app_vars, parse_vars, sync_vars>>

\* File::create(id_save_path).unwrap() panics.
DiffIdFilePanics ==
    /\ ~crashed /\ faults < MaxFaults /\ now < MaxRounds
    /\ last' = [NoRound EXCEPT !.result = "panic", !.step = "ids", !.t = now + 1,
                               !.prev_known = known_jobs, !.prev_ids = all_ids]
    /\ faults' = faults + 1
    /\ now' = now + 1
    /\ fs_root' = TRUE
    /\ crashed' = TRUE
    /\ ocel' = None
    /\ UNCHANGED <<known_jobs, all_ids, fs_ids, fs_jobs, feed, gaps>>

\* squeue_diff called on its own.
IdFilePanics == DiffIdFilePanics /\ UNCHANGED <<app_vars, parse_vars, sync_vars>>

\* The id-set file: to_writer's error is logged, the file stays as it is.
IdFile(rows, idfail) == IF idfail THEN Corrupt ELSE Ser(RowIds(rows))

\* A worker panics: create_dir_all(&folder_path).unwrap() (step "dir") or
\* File::create(save_path).unwrap() (step "file").  The workers of `done` ran,
\* the others were not started; the panic is resumed in squeue_diff, which
\* assigns neither known_jobs nor all_ids.
DiffWorkerPanics ==
    /\ ~crashed /\ faults < MaxFaults /\ now < MaxRounds
    /\ \E rows \in feed :
       \E i \in 1..Len(rows) :
       \E step \in {"dir", "file"} :
       \E done \in SUBSET ((1..Len(rows)) \ {i}) :
         LET T == now + 1
             writes == Writes(known_jobs, T, rows, done, 0)
             dirs == NewJobDirs(known_jobs, rows, IF step = "file" THEN done \cup {i} ELSE done)
         IN  /\ WorkerFile(known_jobs, T, rows[i]) # None
             /\ step = "dir" => rows[i].job_id \notin DOMAIN known_jobs
             /\ \E res \in Resolutions(writes) :
                  fs_jobs' = WriteFiles(fs_jobs, dirs, res)
             /\ fs_ids' = (T :> Ser(RowIds(rows))) @@ fs_ids
             /\ last' = [result |-> "panic", step |-> step, t |-> T, rows |-> rows,
                         prev_known |-> known_jobs, prev_ids |-> all_ids,
                         writes |-> {[worker |-> w.worker, job |-> w.job, name |-> w.name] : w \in writes},
                         warned |-> Warned(known_jobs, all_ids, rows, done \cup {i})]
    /\ faults' = faults + 1
    /\ now' = now + 1
    /\ fs_root' = TRUE
    /\ crashed' = TRUE
    /\ ocel' = None
    /\ UNCHANGED <<known_jobs, all_ids, feed, gaps>>

\* squeue_diff called on its own.
WorkerPanics == DiffWorkerPanics /\ UNCHANGED <<app_vars, parse_vars, sync_vars>>

\* The round completes; `wf` names the write that failed and was logged
\* (-1: the id-set file, i >= 1: the file of worker i, 0: no write failed).
DiffCompletes ==
    /\ ~crashed /\ now < MaxRounds
    /\ \E rows \in feed :
       \E wf \in {0} \cup (IF faults < MaxFaults THEN {-1} \cup (1..Len(rows)) ELSE {}) :
         LET T == now + 1
             writes == Writes(known_jobs, T, rows, 1..Len(rows), wf)
             dirs == NewJobDirs(known_jobs, rows, 1..Len(rows))
         IN  /\ wf >= 1 => WorkerFile(known_jobs, T, rows[wf]) # None
             /\ \E res \in Resolutions(writes) :
                  fs_jobs' = WriteFiles(fs_jobs, dirs, res)
             /\ fs_ids' = (T :> IdFile(rows, wf = -1)) @@ fs_ids
             /\ known_jobs' = NextKnown(known_jobs, rows)
             /\ all_ids' = all_ids \cup RowIds(rows)
             /\ gaps' = gaps \cup (all_ids \ RowIds(rows))
             /\ faults' = IF wf = 0 THEN faults ELSE faults + 1
             /\ last' = [result |-> "ok", step |-> "done", t |-> T, rows |-> rows,
                         prev_known |-> known_jobs, prev_ids |-> all_ids,
                         writes |-> {[worker |-> w.worker, job |-> w.job, name |-> w.name] : w \in writes},
                         warned |-> Warned(known_jobs, all_ids, rows, 1..Len(rows))]
    /\ now' = now + 1
    /\ fs_root' = TRUE
    /\ ocel' = None
    /\ UNCHANGED <<crashed, feed>>

\* squeue_diff called on its own.
Completes == DiffCompletes /\ UNCHANGED <<app_vars, parse_vars, sync_vars>>

\* ---------------------------------------------------------------- synthesizer
\* PathBuf::to_string_lossy of a path given by its components.
RECURSIVE JoinPath(_)
JoinPath(p) == IF p = <<>> THEN "" ELSE "/" \o Head(p) \o JoinPath(Tail(p))

\* s.split("/").last().unwrap_or_default()
LastComponent(p) == IF p = <<>> THEN "" ELSE p[Len(p)]

\* format!("{:?}", state)
DebugState(s) == IF s \in ClosedStates THEN s ELSE "OTHER(\"" \o s \o "\")"

\* and_local_timezone(FixedOffset::east_opt(3600)).single().unwrap(): the
\* instant of a scheduler time read as UTC+01:00, kept with that offset.
AtPlusOne(t) == [instant |-> t - 3600, offset |-> 3600]
\* .to_utc(): the same instant, offset 0.
ToUtc(dt) == [instant |-> dt.instant, offset |-> 0]
\* extract_timestamp of a file name: the round's timestamp T, in UTC.
FileTime(name) == [instant |-> name.t, offset |-> 0]
UnixEpoch == [instant |-> 0, offset |-> 0]

\* The account of the initial snapshot: for "default" the first match of
\* /rwthfs/rz/cluster/home/([^/]*)/.* in work_dir gives the account, unless it
\* is empty.
NormalizedAccount(row) ==
    IF row.account # "default" THEN row.account
    ELSE LET w == row.work_dir
             hits == {i \in 1..Len(w) :
                        /\ i + 5 <= Len(w)
                        /\ SubSeq(w, i, i + 3) = <<"rwthfs", "rz", "cluster", "home">>}
         IN  IF hits = {} THEN "default"
             ELSE LET i == CHOOSE k \in hits : \A h \in hits : k <= h
                  IN  IF w[i + 4] # "" THEN w[i + 4] ELSE "default"

Rel(objectId, qualifier) == [objectId |-> objectId, qualifier |-> qualifier]
Attr(name, value, time) == [name |-> name, value |-> value, time |-> time]
Event(id, type, time, rels) ==
    [id |-> id, event_type |-> type, time |-> time, attributes |-> <<>>, relationships |-> rels]
Object(id, type, attrs, rels) ==
    [id |-> id, object_type |-> type, attributes |-> attrs, relationships |-> rels]

\* ocel.events shared with the workers of the other jobs: a worker would see
\* the events of the workers that finished before it.
OcelEventsDuringReplay_Shared(finished) == finished

\* ocel.events as a worker reads it, `finished` being the events of the
\* workers that finished before: nothing is appended to ocel.events until all
\* workers are done.
OcelEventsDuringReplay(finished) == <<>>

\* glob's order of the files of one job directory.
NameBefore(a, b) == (~a.delta /\ b.delta) \/ (a.delta = b.delta /\ a.t < b.t)

RECURSIVE SortNames(_)
SortNames(S) ==
    IF S = {} THEN <<>>
    ELSE LET first == CHOOSE a \in S : \A b \in S \ {a} : NameBefore(a, b)
         IN  <<first>> \o SortNames(S \ {first})

\* The arm of RUNNING does not set `ignore`.
StateEvent_RunningEmitted(id, n, s, dt) ==
    LET base == id \o "-" \o ToString(n)
        ev(prefix, type) == Event(prefix \o "_" \o base, type, dt, <<Rel(id, "job")>>)
    IN  CASE s = "RUNNING" -> [ignore |-> FALSE, e |-> ev("start-", "Job Started")]
          [] s = "COMPLETING" -> [ignore |-> FALSE, e |-> ev("ending-", "Job Ending")]
          [] s = "COMPLETED" -> [ignore |-> FALSE, e |-> ev("ended-", "Job Completed")]
          [] s = "CANCELLED" -> [ignore |-> FALSE, e |-> ev("cancelled-", "Job Cancelled")]
          [] s = "FAILED" -> [ignore |-> FALSE, e |-> ev("failed-", "Job Failed")]
          [] s = "TIMEOUT" -> [ignore |-> FALSE, e |-> ev("timeout-", "Job Timeout")]
          [] s = "OUT_OF_MEMORY" -> [ignore |-> FALSE, e |-> ev("oom-", "Job Out Of Memory")]
          [] s = "NODE_FAIL" -> [ignore |-> FALSE, e |-> ev("node-fail-", "Job Node Fail")]
          [] OTHER -> [ignore |-> TRUE, e |-> Event(base, "Submit Job", dt, <<Rel(id, "job")>>)]

\* The event of a state change, and whether it is ignored; n is
\* ocel.events.len().
StateEvent(id, n, s, dt) ==
    LET base == id \o "-" \o ToString(n)
        ev(prefix, type) == Event(prefix \o "_" \o base, type, dt, <<Rel(id, "job")>>)
    IN  CASE s = "RUNNING" -> [ignore |-> TRUE, e |-> ev("start-", "Job Started")]
          [] s = "COMPLETING" -> [ignore |-> FALSE, e |-> ev("ending-", "Job Ending")]
          [] s = "COMPLETED" -> [ignore |-> FALSE, e |-> ev("ended-", "Job Completed")]
          [] s = "CANCELLED" -> [ignore |-> FALSE, e |-> ev("cancelled-", "Job Cancelled")]
          [] s = "FAILED" -> [ignore |-> FALSE, e |-> ev("failed-", "Job Failed")]
          [] s = "TIMEOUT" -> [ignore |-> FALSE, e |-> ev("timeout-", "Job Timeout")]
          [] s = "OUT_OF_MEMORY" -> [ignore |-> FALSE, e |-> ev("oom-", "Job Out Of Memory")]
          [] s = "NODE_FAIL" -> [ignore |-> FALSE, e |-> ev("node-fail-", "Job Node Fail")]
          [] OTHER -> [ignore |-> TRUE, e |-> Event(base, "Submit Job", dt, <<Rel(id, "job")>>)]

\* `set.write().unwrap().insert(id)` on one of the four shared sets.
Insert(set, id) == [set |-> set, id |-> id]

\* The ExecHost arm: a host that is Some is put into the shared set of hosts
\* and the job gets an "executed on" relationship to it.
ExecHostChange_HostNotCollected(st, v) ==
    IF v # None
    THEN [st EXCEPT !.o.relationships = Append(@, Rel("host_" \o v[1], "executed on"))]
    ELSE st

ExecHostChange(st, v) ==
    IF v # None
    THEN [st EXCEPT !.hosts = @ \cup {v[1]},
                    !.inserts = Append(@, Insert("hosts", v[1])),
                    !.o.relationships = Append(@, Rel("host_" \o v[1], "executed on"))]
    ELSE st

\* The start_time arm takes every new start_time, whatever the state.
StartTimeChange_AnyState(st, v) ==
    IF v # None
    THEN IF st.start_ev # None
         THEN [st EXCEPT !.start_ev = Some([@[1] EXCEPT !.time = AtPlusOne(v[1])])]
         ELSE [st EXCEPT !.start_ev =
                  Some(Event("start-" \o st.o.id \o "-" \o ToString(Len(st.seen)),
                             "Job Started", ToUtc(AtPlusOne(v[1])),
                             <<Rel(st.o.id, "job")>>))]
    ELSE st

\* The start_time arm: for a job that is not PENDING and a start_time that is
\* Some, the time of the buffered Start event is overwritten, or a Start event
\* is buffered when there is none.
StartTimeChange(st, v) ==
    IF st.row.state # "PENDING" /\ v # None
    THEN IF st.start_ev # None
         THEN [st EXCEPT !.start_ev = Some([@[1] EXCEPT !.time = AtPlusOne(v[1])])]
         ELSE [st EXCEPT !.start_ev =
                  Some(Event("start-" \o st.o.id \o "-" \o ToString(Len(st.seen)),
                             "Job Started", ToUtc(AtPlusOne(v[1])),
                             <<Rel(st.o.id, "job")>>))]
    ELSE st

\* The account arm relates the job to the new account.
AccountChange_Rerelates(st, v) ==
    [st EXCEPT !.accounts = @ \cup {v},
               !.o.relationships = Append(@, Rel("acc_" \o v, "submitted by"))]

\* The account arm prints "Account change for {a} not handled!" and does
\* nothing else.
AccountChange(st, v) == st

\* The attributes declared for the object type Job.
JobAttributeNames == {"state", "command", "work_dir", "cpus", "min_memory"}

\* One arm of `match df`; st.row is the row after the whole delta was applied.
HandleChange(st, df, dt) ==
    LET f == df[1]
        v == df[2]
        push(name, value) == [st EXCEPT !.o.attributes = Append(@, Attr(name, value, dt))]
    IN  CASE f = "command" -> push("command", LastComponent(v))
          [] f = "work_dir" -> push("work_dir", JoinPath(v))
          [] f = "min_memory" -> push("min_memory", v)
          [] f = "priority" -> push("priority", ToString(v))
          [] f = "exec_host" -> ExecHostChange(st, v)
          [] f = "state" ->
                LET se == StateEvent(st.o.id, Len(st.seen), v, dt)
                    st1 == [st EXCEPT !.o.attributes = Append(@, Attr("state", DebugState(st.row.state), dt))]
                IN  IF se.ignore THEN st1 ELSE [st1 EXCEPT !.events = Append(@, se.e)]
          [] f = "group" -> [st EXCEPT !.groups = @ \cup {v},
                                       !.inserts = Append(@, Insert("groups", v))]
          [] f = "partition" -> [st EXCEPT !.partitions = @ \cup {v},
                                           !.inserts = Append(@, Insert("partitions", v))]
          [] f = "start_time" -> StartTimeChange(st, v)
          [] f = "account" -> AccountChange(st, v)
          [] OTHER -> st

RECURSIVE HandleDelta(_, _, _)
HandleDelta(st, delta, dt) ==
    IF delta = <<>> THEN st
    ELSE HandleDelta(HandleChange(st, Head(delta), dt), Tail(delta), dt)

\* `for d in g.flatten()`: the files after the first, in glob's order.  A file
\* without DELTA in its name is passed over; a DELTA file that does not parse
\* makes the worker panic.
RECURSIVE ReplayFiles(_, _, _)
ReplayFiles(st, dir, names) ==
    IF names = <<>> \/ st.panic THEN st
    ELSE LET n == Head(names)
         IN  IF ~n.delta THEN ReplayFiles(st, dir, Tail(names))
             ELSE IF ~dir[n].ok THEN [st EXCEPT !.panic = TRUE]
             ELSE LET delta == dir[n].val
                      dt == FileTime(n)
                      st1 == [st EXCEPT !.row = ApplyMut(@, delta),
                                        !.backwards = @ \/ (st.last_dt.instant > dt.instant),
                                        !.last_dt = dt]
                  IN  ReplayFiles(HandleDelta(st1, delta, dt), dir, Tail(names))

\* The Submit Job event of the initial snapshot; n is events.len().
SubmitEvent_NoOffset(row, account, n) ==
    Event("submit-" \o row.job_id \o "-" \o ToString(n), "Submit Job",
          [instant |-> row.submit_time, offset |-> 0],
          <<Rel(row.job_id, "job"), Rel("acc_" \o account, "submitter")>>)

SubmitEvent(row, account, n) ==
    Event("submit-" \o row.job_id \o "-" \o ToString(n), "Submit Job",
          ToUtc(AtPlusOne(row.submit_time)),
          <<Rel(row.job_id, "job"), Rel("acc_" \o account, "submitter")>>)

\* The staging does not look at the state.
StagedStart_AlsoPending(row, n) ==
    IF row.start_time # None
    THEN Some(Event("start-" \o row.job_id \o "-" \o ToString(n), "Job Started",
                    ToUtc(AtPlusOne(row.start_time[1])),
                    <<Rel(row.job_id, "job"), Rel("group_" \o row.group, "for")>>
                    \o (IF row.exec_host # None
                        THEN <<Rel("host_" \o row.exec_host[1], "host")>>
                        ELSE <<>>)))
    ELSE None

\* The Job Started event staged from the initial snapshot (start_ev); n is
\* events.len(), 1 after the push of the Submit Job event.
StagedStart(row, n) ==
    IF row.state # "PENDING" /\ row.start_time # None
    THEN Some(Event("start-" \o row.job_id \o "-" \o ToString(n), "Job Started",
                    ToUtc(AtPlusOne(row.start_time[1])),
                    <<Rel(row.job_id, "job"), Rel("group_" \o row.group, "for")>>
                    \o (IF row.exec_host # None
                        THEN <<Rel("host_" \o row.exec_host[1], "host")>>
                        ELSE <<>>)))
    ELSE None

\* The state of one worker after the initial snapshot `row` read at `dt`;
\* `finished` are the events of the workers that finished before.
SeedWith(row, dt, account, finished) ==
    LET id == row.job_id
        o == Object(id, "Job",
                    <<Attr("command", LastComponent(row.command), UnixEpoch),
                      Attr("work_dir", JoinPath(row.work_dir), UnixEpoch),
                      Attr("cpus", ToString(row.cpus), UnixEpoch),
                      Attr("min_memory", row.min_memory, UnixEpoch),
                      Attr("state", DebugState(row.state), dt)>>,
                    <<Rel("acc_" \o account, "submitted by"),
                      Rel("group_" \o row.group, "submitted by group"),
                      Rel("part_" \o row.partition, "submitted on")>>
                    \o (IF row.exec_host # None
                        THEN <<Rel("host_" \o row.exec_host[1], "executed on")>>
                        ELSE <<>>))
    IN  [panic |-> FALSE, row |-> row, o |-> o,
         events |-> <<SubmitEvent(row, account, 0)>>,
         start_ev |-> StagedStart(row, 1),
         seen |-> OcelEventsDuringReplay(finished),
         accounts |-> {account}, groups |-> {row.group}, partitions |-> {row.partition},
         hosts |-> IF row.exec_host # None THEN {row.exec_host[1]} ELSE {},
         inserts |-> <<Insert("accounts", account), Insert("groups", row.group),
                       Insert("partitions", row.partition)>>
                     \o (IF row.exec_host # None
                         THEN <<Insert("hosts", row.exec_host[1]),
                                Insert("hosts", row.exec_host[1])>>
                         ELSE <<>>),
         last_dt |-> dt, backwards |-> FALSE]

SeedJob(row, dt, finished) == SeedWith(row, dt, NormalizedAccount(row), finished)

\* The buffered Start event is put before the events of the replay.
WorkerResult_StartFirst(st) ==
    IF st.panic THEN [status |-> "panic"]
    ELSE [status |-> "ok", row |-> st.row, o |-> st.o,
          events |-> st.start_ev \o st.events,
          accounts |-> st.accounts, groups |-> st.groups,
          partitions |-> st.partitions, hosts |-> st.hosts,
          inserts |-> st.inserts,
          backwards |-> st.backwards]

\* What the closure of one job returns when its replay ended in `st`.
WorkerResult(st) ==
    IF st.panic THEN [status |-> "panic"]
    ELSE [status |-> "ok", row |-> st.row, o |-> st.o,
          events |-> st.events \o st.start_ev,
          accounts |-> st.accounts, groups |-> st.groups,
          partitions |-> st.partitions, hosts |-> st.hosts,
          inserts |-> st.inserts,
          backwards |-> st.backwards]

\* The files of a directory in glob's order: the first is read as the initial
\* snapshot, the others are replayed.
ReplayDir(dir, names, finished) ==
    IF names = <<>> THEN [status |-> "skip"]
    ELSE IF names[1].delta \/ ~dir[names[1]].ok THEN [status |-> "panic"]
    ELSE WorkerResult(ReplayFiles(SeedJob(dir[names[1]].val, FileTime(names[1]), finished),
                                  dir, Tail(names)))

\* The closure run for one job id: "skip" when the directory holds no file,
\* "panic" when a file name or a file does not parse, else the Job object, its
\* events and the identifiers the worker put into the shared sets.
JobWorker(dir, finished) == ReplayDir(dir, SortNames(DOMAIN dir), finished)

\* The order in which a HashSet is iterated (the four shared sets).  It is not specified; the lists below are built in
\* one such order, and nothing reads where in ocel.objects an object stands or
\* how the events of different jobs are interleaved.
RECURSIVE IterOrder(_)
IterOrder(S) ==
    IF S = {} THEN <<>>
    ELSE LET x == CHOOSE y \in S : TRUE IN <<x>> \o IterOrder(S \ {x})

\* The orders in which the workers of the job ids of S can finish.
JobOrders(S) ==
    {o \in [1..Cardinality(S) -> S] : \A i, k \in 1..Cardinality(S) : i # k => o[i] # o[k]}

EventsOf(r) == IF r.status = "ok" THEN r.events ELSE <<>>

\* The workers of the jobs, finishing in `order`: what JobWorker returned, in
\* that order.
RECURSIVE RunWorkers(_, _, _)
RunWorkers(jobsfs, order, finished) ==
    IF order = <<>> THEN <<>>
    ELSE LET r == JobWorker(jobsfs[Head(order)], finished)
         IN  <<r>> \o RunWorkers(jobsfs, Tail(order), finished \o EventsOf(r))

RECURSIVE Flatten(_)
Flatten(seqs) == IF seqs = <<>> THEN <<>> ELSE Head(seqs) \o Flatten(Tail(seqs))

SecondaryObjects(prefix, type, S) ==
    [i \in 1..Cardinality(S) |-> Object(prefix \o IterOrder(S)[i], type, <<>>, <<>>)]

Collected(ok, field) == UNION {ok[i][field] : i \in 1..Len(ok)}

\* ocel.objects and ocel.events from what the workers returned.
Assemble(ok) ==
    [status |-> "ok",
     objects |->
         [i \in 1..Len(ok) |-> ok[i].o]
         \o SecondaryObjects("acc_", "Account", Collected(ok, "accounts"))
         \o SecondaryObjects("group_", "Group", Collected(ok, "groups"))
         \o SecondaryObjects("part_", "Partition", Collected(ok, "partitions"))
         \o SecondaryObjects("host_", "Host", Collected(ok, "hosts")),
     events |-> Flatten([i \in 1..Len(ok) |-> ok[i].events])]

Resumed(res) ==
    IF \E i \in 1..Len(res) : res[i].status = "panic"
    THEN [status |-> "panic"]
    ELSE Assemble(SelectSeq(res, LAMBDA r : r.status = "ok"))

\* extract_ocel_from_slurm_diffs over the job directories `jobsfs`, the workers
\* finishing in `order`: a panic of one worker is resumed in the caller, else
\* Ok(ocel).
ExtractOcel(jobsfs, order) == Resumed(RunWorkers(jobsfs, order, <<>>))

\* A call of extract_ocel_from_slurm_diffs on the archive as it is.
extract_ocel_from_slurm_diffs ==
    /\ ocel = None
    /\ \E order \in JobOrders(DOMAIN fs_jobs) :
          ocel' = Some(ExtractOcel(fs_jobs, order))
    /\ UNCHANGED <<known_jobs, all_ids, fs_root, fs_ids, fs_jobs, feed, now, faults, crashed, last, gaps>>
    /\ UNCHANGED <<app_vars, parse_vars, sync_vars>>

\* ---------------------------------------------------------------- the shared sets
SetNames == {"accounts", "groups", "partitions", "hosts"}

\* The four sets as `Default::default()` makes them: empty, no writer.
NoSets == [n \in SetNames |-> [writer |-> None, val |-> {}]]

\* The closure of a job as par_iter starts it: every insertion of its replay
\* is still to be made.
NewWorker(dir) == [pc |-> "run", ops |-> JobWorker(dir, <<>>).inserts]

\* The guard is taken though another closure holds it.
WriteLock_NoWait(j) ==
    /\ closures[j].pc = "run"
    /\ sets' = [sets EXCEPT ![closures[j].ops[1].set].writer = Some(j)]
    /\ closures' = [closures EXCEPT ![j].pc = "locked"]
    /\ UNCHANGED <<archive_vars, app_vars, parse_vars>>

\* `set.write().unwrap()`: the closure of job j gets the write guard of the
\* set of its next insertion once no other closure holds it.
WriteLock(j) ==
    /\ closures[j].pc = "run"
    /\ sets[closures[j].ops[1].set].writer = None
    /\ sets' = [sets EXCEPT ![closures[j].ops[1].set].writer = Some(j)]
    /\ closures' = [closures EXCEPT ![j].pc = "locked"]
    /\ UNCHANGED <<archive_vars, app_vars, parse_vars>>

\* `.insert(id)` and the end of the statement, where the guard is dropped;
\* after its last insertion the closure returns.
InsertUnlock(j) ==
    /\ closures[j].pc = "locked"
    /\ sets' = [sets EXCEPT ![closures[j].ops[1].set] =
                    [writer |-> None, val |-> @.val \cup {closures[j].ops[1].id}]]
    /\ closures' = [closures EXCEPT ![j] =
                    [pc |-> IF Len(@.ops) = 1 THEN "done" ELSE "run", ops |-> Tail(@.ops)]]
    /\ UNCHANGED <<archive_vars, app_vars, parse_vars>>

\* ---------------------------------------------------------------- the application's poll loop
\* The looping_interval values start_squeue_loop is called with.
Intervals == {0, 1, 3}

\* A spawned loop task: where it stands in the loop body, the looping_interval
\* it captured, and the value of `_` in `for _ in 1..looping_interval`.
\*   "top"        at `let l = state.read().await`
\*   "round"      holding the read guard l, inside squeue_diff
\*   "check"      at `state.read().await.looping_info.is_none()`
\*   "sleep"      in tokio::time::sleep(1 s)
\*   "no_client"  l dropped, at `state.write().await.looping_info = None`
\*   "done"       after break 'inf_loop
\*   "panicked"   the unwrap of the round's result panicked
NewTask(I) == [pc |-> "top", interval |-> I, k |-> 0]

Alive(t) == tasks[t].pc \in {"top", "round", "emit", "check", "sleep", "no_client"}

\* The guard `l` is dropped when squeue_diff has returned.
ReadLocked_DroppedBeforeEmit == \E t \in 1..Len(tasks) : tasks[t].pc = "round"

\* A task holds the read guard `l` of the application state: from
\* `state.read().await` to `drop(l)`, which follows the emit.
ReadLocked == \E t \in 1..Len(tasks) : tasks[t].pc \in {"round", "emit"}

\* start_squeue_loop: without a picked folder it returns an error; with one it
\* stores the LoopingInfo and spawns the loop task.
start_squeue_loop ==
    /\ \E I \in Intervals :
        \/ /\ cmd' = "start: No folder path selected."
           /\ UNCHANGED <<looping_info, tasks>>
        \/ /\ ~ReadLocked
           /\ Len(tasks) < MaxTasks
           /\ looping_info' = Some([second_interval |-> I])
           /\ tasks' = Append(tasks, NewTask(I))
           /\ cmd' = "start: Loop running in background"
    /\ UNCHANGED client
    /\ UNCHANGED <<archive_vars, parse_vars, sync_vars, emitted>>

stop_squeue_loop ==
    /\ ~ReadLocked
    /\ IF looping_info # None
       THEN looping_info' = None /\ cmd' = "stop: Stopped Loop"
       ELSE looping_info' = looping_info /\ cmd' = "stop: No loop currently running"
    /\ UNCHANGED <<client, tasks>>
    /\ UNCHANGED <<archive_vars, parse_vars, sync_vars, emitted>>

login ==
    /\ ~ReadLocked
    /\ client' = TRUE
    /\ cmd' = "login: OK"
    /\ UNCHANGED <<looping_info, tasks>>
    /\ UNCHANGED <<archive_vars, parse_vars, sync_vars, emitted>>

logout ==
    /\ ~ReadLocked
    /\ client' = FALSE
    /\ cmd' = "logout: OK"
    /\ UNCHANGED <<looping_info, tasks>>
    /\ UNCHANGED <<archive_vars, parse_vars, sync_vars, emitted>>

\* `let l = state.read().await; if let Some(client) = &l.client`
LoopTop(t) ==
    /\ tasks[t].pc = "top"
    /\ tasks' = [tasks EXCEPT ![t].pc = IF client THEN "round" ELSE "no_client"]
    /\ UNCHANGED <<looping_info, client, cmd>>
    /\ UNCHANGED <<archive_vars, parse_vars, sync_vars, emitted>>

\* The range of `for _ in 1..looping_interval`.
SleepRange(I) == 1..(I - 1)

\* The task after `drop(l)`: the first iteration of the for loop, or the next
\* round when its range is empty.
AfterRound(task) ==
    IF 1 \in SleepRange(task.interval)
    THEN [task EXCEPT !.pc = "check", !.k = 1]
    ELSE [task EXCEPT !.pc = "top"]

\* The round taken as one step, the archive and the published events left
\* aside: squeue_diff returned Ok, emit "squeue-rows", drop(l), enter the for
\* loop.
LoopRound(t) ==
    /\ tasks[t].pc = "round"
    /\ tasks' = [tasks EXCEPT ![t] = AfterRound(@)]
    /\ UNCHANGED <<looping_info, client, cmd>>
    /\ UNCHANGED <<archive_vars, parse_vars, sync_vars, emitted>>

\* squeue_diff returned Err or panicked: `.unwrap()` ends the task.
LoopRoundFails(t) ==
    /\ tasks[t].pc = "round"
    /\ tasks' = [tasks EXCEPT ![t].pc = "panicked"]
    /\ UNCHANGED <<looping_info, client, cmd>>
    /\ UNCHANGED <<archive_vars, parse_vars, sync_vars, emitted>>

\* `if state.read().await.looping_info.is_none() { break 'inf_loop; }`
LoopCheck(t) ==
    /\ tasks[t].pc = "check"
    /\ tasks' = [tasks EXCEPT ![t].pc = IF looping_info = None THEN "done" ELSE "sleep"]
    /\ UNCHANGED <<looping_info, client, cmd>>
    /\ UNCHANGED <<archive_vars, parse_vars, sync_vars, emitted>>

\* The one-second sleep is over: the next iteration of the for loop, or the
\* next round.
LoopSleep(t) ==
    /\ tasks[t].pc = "sleep"
    /\ tasks' = [tasks EXCEPT ![t] =
                    IF @.k + 1 \in SleepRange(@.interval)
                    THEN [@ EXCEPT !.pc = "check", !.k = @ + 1]
                    ELSE [@ EXCEPT !.pc = "top", !.k = 0]]
    /\ UNCHANGED <<looping_info, client, cmd>>
    /\ UNCHANGED <<archive_vars, parse_vars, sync_vars, emitted>>

\* The branch breaks without clearing looping_info.
LoopNoClient_KeepsInfo(t) ==
    /\ tasks[t].pc = "no_client"
    /\ tasks' = [tasks EXCEPT ![t].pc = "done"]
    /\ UNCHANGED <<looping_info, client, cmd>>
    /\ UNCHANGED <<archive_vars, parse_vars, sync_vars, emitted>>

\* `state.write().await.looping_info = None; break 'inf_loop;`
LoopNoClient(t) ==
    /\ tasks[t].pc = "no_client"
    /\ ~ReadLocked
    /\ looping_info' = None
    /\ tasks' = [tasks EXCEPT ![t].pc = "done"]
    /\ UNCHANGED <<client, cmd>>
    /\ UNCHANGED <<archive_vars, parse_vars, sync_vars, emitted>>

\* What a loop task does when the scheduler command returns and the runtime
\* runs it; a failing round is not forced.
\* squeue_diff(..).await returned Ok((time, rows)): the archive and the task's
\* known_jobs and all_ids are those of the completed round.
LoopDiff(t) ==
    /\ tasks[t].pc = "round"
    /\ DiffCompletes
    /\ tasks' = [tasks EXCEPT ![t].pc = "emit"]
    /\ UNCHANGED <<looping_info, client, cmd, emitted>>
    /\ UNCHANGED <<parse_vars, sync_vars>>

\* squeue_diff(..).await returned Err or panicked: `.unwrap()` ends the task.
LoopDiffFails(t) ==
    /\ tasks[t].pc = "round"
    /\ \/ DiffFetchFails
       \/ DiffRootDirFails
       \/ DiffIdFilePanics
       \/ DiffWorkerPanics
    /\ tasks' = [tasks EXCEPT ![t].pc = "panicked"]
    /\ UNCHANGED <<looping_info, client, cmd, emitted>>
    /\ UNCHANGED <<parse_vars, sync_vars>>

\* The result is not published.
LoopEmit_Silent(t) ==
    /\ tasks[t].pc = "emit"
    /\ tasks' = [tasks EXCEPT ![t] = AfterRound(@)]
    /\ UNCHANGED <<looping_info, client, cmd, emitted>>
    /\ UNCHANGED <<archive_vars, parse_vars, sync_vars>>

\* `app.emit("squeue-rows", &res).unwrap(); i += 1; drop(l);` with the res
\* that squeue_diff has just returned, then the for loop.
LoopEmit(t) ==
    /\ tasks[t].pc = "emit"
    /\ emitted' = Append(emitted, [time |-> last.t, rows |-> last.rows])
    /\ tasks' = [tasks EXCEPT ![t] = AfterRound(@)]
    /\ UNCHANGED <<looping_info, client, cmd>>
    /\ UNCHANGED <<archive_vars, parse_vars, sync_vars>>

LoopProgress(t) ==
    \/ LoopTop(t)
    \/ LoopRound(t)
    \/ LoopCheck(t)
    \/ LoopSleep(t)
    \/ LoopNoClient(t)

\* ---------------------------------------------------------------- texts
DigitChars == <<"0", "1", "2", "3", "4", "5", "6", "7", "8", "9">>

IsDigit(c) == \E d \in DOMAIN DigitChars : DigitChars[d] = c

DigitValue(c) == (CHOOSE d \in DOMAIN DigitChars : DigitChars[d] = c) - 1

\* The decimal numeral of n.
RECURSIVE Digits(_)
Digits(n) ==
    IF n < Len(DigitChars) THEN <<DigitChars[n + 1]>>
    ELSE Digits(n \div Len(DigitChars)) \o <<DigitChars[(n % Len(DigitChars)) + 1]>>

\* str::split(sep): the pieces between the separators, never fewer than one.
Split(s, sep) ==
    LET cuts == {i \in 1..Len(s) : s[i] = sep}
        cut(k) == IF k = 0 THEN 0
                  ELSE IF k = Cardinality(cuts) + 1 THEN Len(s) + 1
                  ELSE CHOOSE i \in cuts : Cardinality({j \in cuts : j < i}) = k - 1
    IN  [k \in 1..(Cardinality(cuts) + 1) |-> SubSeq(s, cut(k - 1) + 1, cut(k) - 1)]

RECURSIVE Join(_, _)
Join(pieces, sep) ==
    IF Len(pieces) = 0 THEN <<>>
    ELSE IF Len(pieces) = 1 THEN pieces[1]
    ELSE pieces[1] \o <<sep>> \o Join(Tail(pieces), sep)

AllDigits(cs) == cs # <<>> /\ \A i \in 1..Len(cs) : IsDigit(cs[i])

RECURSIVE DigitsValue(_)
DigitsValue(cs) ==
    IF cs = <<>> THEN 0
    ELSE Len(DigitChars) * DigitsValue(SubSeq(cs, 1, Len(cs) - 1)) + DigitValue(cs[Len(cs)])

\* str::parse::<u64>() and ::<usize>(): an optional '+', then one or more
\* digits (the numerals of the model stay far below 2^64).
ParseUnsigned(cs) ==
    IF cs # <<>> /\ cs[1] = "+"
    THEN IF AllDigits(Tail(cs)) THEN Some(DigitsValue(Tail(cs))) ELSE None
    ELSE IF AllDigits(cs) THEN Some(DigitsValue(cs)) ELSE None

\* The seconds of the three-part form: hms[1] is read for the minutes and
\* for the seconds, hms[2] is not read.
HmsSeconds(hms) ==
    IF ParseUnsigned(hms[1]) = None \/ ParseUnsigned(hms[2]) = None THEN None
    ELSE Some(ParseUnsigned(hms[2])[1] + 60 * ParseUnsigned(hms[2])[1]
              + 60 * 60 * ParseUnsigned(hms[1])[1])

MsSeconds(hms) ==
    IF ParseUnsigned(hms[1]) = None \/ ParseUnsigned(hms[2]) = None THEN None
    ELSE Some(ParseUnsigned(hms[2])[1] + 60 * ParseUnsigned(hms[1])[1])

SingleSeconds(hms, has_days_part) ==
    IF ParseUnsigned(hms[1]) = None THEN None
    ELSE IF has_days_part THEN Some(60 * 60 * ParseUnsigned(hms[1])[1])
    ELSE Some(60 * ParseUnsigned(hms[1])[1])

DurationOf(days, rest) ==
    IF days = None \/ rest = None THEN None
    ELSE Some(days[1] * 60 * 60 * 24 + rest[1])

HmsPart(hms, has_days_part) ==
    IF Len(hms) = 3 THEN HmsSeconds(hms)
    ELSE IF Len(hms) = 2 THEN MsSeconds(hms)
    ELSE IF Len(hms) = 1 THEN SingleSeconds(hms, has_days_part)
    ELSE None

\* parse_slurm_duration: Ok(seconds) or Err.
parse_slurm_duration(s) ==
    IF Len(Split(s, "-")) > 1
    THEN DurationOf(ParseUnsigned(Split(s, "-")[1]),
                    HmsPart(Split(Split(s, "-")[2], ":"), TRUE))
    ELSE DurationOf(Some(0), HmsPart(Split(Split(s, "-")[1], ":"), FALSE))

\* The components a duration text is made of: a number, or -1 for a
\* component that is no number.
Components == (0..MaxComp) \cup {10, -1}

ComponentText(c) == IF c < 0 THEN <<"x">> ELSE Digits(c)

ColonLists == UNION {[1..n -> Components] : n \in 1..MaxParts}

\* A duration text is '-'-separated groups of ':'-separated components.
DurationPlans ==
    {<<g>> : g \in ColonLists}
    \cup {<<<<d>>, g>> : d \in Components, g \in ColonLists}
    \cup {<<<<a>>, <<b>>, <<c>>>> : a \in Components, b \in Components, c \in Components}
    \cup {<<<<a, b>>, <<c>>>> : a \in Components, b \in Components, c \in Components}

DurationText(plan) ==
    Join([g \in 1..Len(plan) |->
             Join([i \in 1..Len(plan[g]) |-> ComponentText(plan[g][i])], ":")], "-")

NoInput == [kind |-> "none", plan |-> <<>>, text |-> <<>>]

ParseDuration ==
    /\ input.kind = "duration"
    /\ parsed = None
    /\ parsed' = Some(parse_slurm_duration(input.text))
    /\ UNCHANGED <<input, archive_vars, app_vars, sync_vars>>

\* ---------------------------------------------------------------- squeue output
\* to_string(): the string of a text.
RECURSIVE Str(_)
Str(cs) == IF cs = <<>> THEN "" ELSE cs[1] \o Str(Tail(cs))

LowerChar(c) ==
    CASE c = "I" -> "i" [] c = "N" -> "n" [] c = "F" -> "f" [] c = "T" -> "t"
      [] c = "Y" -> "y" [] c = "A" -> "a" [] c = "E" -> "e" [] OTHER -> c

Lower(cs) == [i \in 1..Len(cs) |-> LowerChar(cs[i])]

Unsigned(cs) == IF cs # <<>> /\ cs[1] \in {"+", "-"} THEN Tail(cs) ELSE cs

Negative(cs) == cs # <<>> /\ cs[1] = "-"

\* The mantissa of a decimal float: digits, at most one '.', one digit or more.
Mantissa(parts) ==
    IF \/ Len(parts) > 2
       \/ \E k \in 1..Len(parts) : \E i \in 1..Len(parts[k]) : ~IsDigit(parts[k][i])
       \/ \A k \in 1..Len(parts) : parts[k] = <<>>
    THEN None
    ELSE Some([whole |-> DigitsValue(parts[1]),
               frac |-> IF Len(parts) = 2 THEN Str(parts[2]) ELSE ""])

Exponent(cs) ==
    IF ~AllDigits(Unsigned(cs)) THEN None
    ELSE IF Negative(cs) THEN Some(0 - DigitsValue(Unsigned(cs)))
    ELSE Some(DigitsValue(Unsigned(cs)))

FloatOf(neg, mantissa, exponent) ==
    IF mantissa = None \/ exponent = None THEN None
    ELSE Some([special |-> "", neg |-> neg, whole |-> mantissa[1].whole,
               frac |-> mantissa[1].frac, exp |-> exponent[1]])

DecimalFloat(neg, parts) ==
    IF Len(parts) = 1 THEN FloatOf(neg, Mantissa(Split(parts[1], ".")), Some(0))
    ELSE IF Len(parts) = 2
    THEN FloatOf(neg, Mantissa(Split(parts[1], ".")), Exponent(parts[2]))
    ELSE None

\* str::parse::<f64>(): an optional sign, then inf, infinity or nan in any
\* case, or a decimal number with an optional exponent.
ParseF64(cs) ==
    IF Str(Lower(Unsigned(cs))) \in {"inf", "infinity", "nan"}
    THEN Some([special |-> IF Str(Lower(Unsigned(cs))) = "nan" THEN "nan" ELSE "inf",
               neg |-> Negative(cs), whole |-> 0, frac |-> "", exp |-> 0])
    ELSE DecimalFloat(Negative(cs), Split(Lower(Unsigned(cs)), "e"))

\* The items of the format "%Y-%m-%dT%H:%M:%S": a numeric field with its
\* width, or a literal character (width 0).
DateTimeFormat ==
    <<[field |-> "year", width |-> 4], [field |-> "-", width |-> 0],
      [field |-> "month", width |-> 2], [field |-> "-", width |-> 0],
      [field |-> "day", width |-> 2], [field |-> "T", width |-> 0],
      [field |-> "hour", width |-> 2], [field |-> ":", width |-> 0],
      [field |-> "minute", width |-> 2], [field |-> ":", width |-> 0],
      [field |-> "second", width |-> 2]>>

\* The first position from p on that holds no blank.
SkipBlanks(s, p) ==
    CHOOSE q \in p..(Len(s) + 1) :
        /\ \A i \in p..(q - 1) : s[i] = " "
        /\ q <= Len(s) => s[q] # " "

\* scan::number(s, 1, width): the length of the longest run of digits from p
\* on, of at most width digits.
DigitRun(s, p, width) ==
    Max({n \in 0..width : /\ p + n - 1 <= Len(s)
                          /\ \A i \in p..(p + n - 1) : IsDigit(s[i])})

\* A signed field (the year) that starts with a sign takes any number of digits.
SignAt(s, p, item) == item.field = "year" /\ p <= Len(s) /\ s[p] \in {"+", "-"}

NumberStart(s, p, item) == IF SignAt(s, p, item) THEN p + 1 ELSE p

NumberWidth(s, p, item) == IF SignAt(s, p, item) THEN Len(s) ELSE item.width

NumberValue(s, p, item, from, n) ==
    IF SignAt(s, p, item) /\ s[p] = "-"
    THEN 0 - DigitsValue(SubSeq(s, from, from + n - 1))
    ELSE DigitsValue(SubSeq(s, from, from + n - 1))

\* The fields of the text s from position p on, read item by item.
RECURSIVE ScanItems(_, _, _, _)
ScanNumber(s, p, items, acc) ==
    IF DigitRun(s, NumberStart(s, p, items[1]), NumberWidth(s, p, items[1])) = 0 THEN None
    ELSE ScanItems(s,
                   NumberStart(s, p, items[1])
                      + DigitRun(s, NumberStart(s, p, items[1]), NumberWidth(s, p, items[1])),
                   Tail(items),
                   [acc EXCEPT ![items[1].field] =
                       NumberValue(s, p, items[1], NumberStart(s, p, items[1]),
                                   DigitRun(s, NumberStart(s, p, items[1]),
                                            NumberWidth(s, p, items[1])))])

ScanItems(s, p, items, acc) ==
    IF items = <<>> THEN (IF p = Len(s) + 1 THEN Some(acc) ELSE None)
    ELSE IF items[1].width = 0
    THEN IF p <= Len(s) /\ s[p] = items[1].field
         THEN ScanItems(s, p + 1, Tail(items), acc)
         ELSE None
    ELSE ScanNumber(s, SkipBlanks(s, p), items, acc)

LeapYear(y) == y % 4 = 0 /\ (y % 100 # 0 \/ y % 400 = 0)

DaysIn(y, m) ==
    IF m = 2 THEN (IF LeapYear(y) THEN 29 ELSE 28)
    ELSE IF m \in {4, 6, 9, 11} THEN 30
    ELSE 31

ValidDateTime(t) ==
    /\ t.month \in 1..12
    /\ t.day \in 1..DaysIn(t.year, t.month)
    /\ t.hour \in 0..23
    /\ t.minute \in 0..59
    /\ t.second \in 0..60

Checked(scanned) ==
    IF scanned = None THEN None
    ELSE IF ValidDateTime(scanned[1]) THEN scanned ELSE None

\* NaiveDateTime::parse_from_str(s, "%Y-%m-%dT%H:%M:%S"): here the date
\* and time keep their fields.
ParseNaiveDateTime(cs) ==
    Checked(ScanItems(cs, 1, DateTimeFormat,
                      [f \in {"year", "month", "day", "hour", "minute", "second"} |-> 0]))

\* "N/A" is Ok(None), every other text is parsed: Result<Option<NaiveDateTime>>.
OptionalDateTime(cs) ==
    IF Str(cs) = "N/A" THEN Some(None)
    ELSE IF ParseNaiveDateTime(cs) = None THEN None
    ELSE Some(ParseNaiveDateTime(cs))

\* "INVALID" and every text parse_slurm_duration rejects are None.
OptionalDuration(cs) ==
    IF Str(cs) = "INVALID" THEN None
    ELSE IF parse_slurm_duration(cs) = None THEN None
    ELSE Some(parse_slurm_duration(cs)[1])

OptionalString(cs, absent) == IF Str(cs) = absent THEN None ELSE Some(Str(cs))

StepJobId(parts) ==
    <<Str(parts[1]), IF Len(parts) > 1 THEN Some(Str(parts[2])) ELSE None>>

\* SqueueRow::parse_from_strs: Ok(row) or Err.
parse_from_strs(vals) ==
    IF Len(vals) # 25 THEN None
    ELSE IF \/ ParseUnsigned(vals[4]) = None
            \/ ParseUnsigned(vals[5]) = None
            \/ ParseUnsigned(vals[6]) = None
            \/ OptionalDateTime(vals[7]) = None
            \/ ParseF64(vals[18]) = None
            \/ OptionalDateTime(vals[22]) = None
            \/ ParseNaiveDateTime(vals[23]) = None
    THEN None
    ELSE Some([account |-> Str(vals[1]),
               job_id |-> Str(vals[2]),
               exec_host |-> OptionalString(vals[3], "n/a"),
               min_cpus |-> ParseUnsigned(vals[4])[1],
               cpus |-> ParseUnsigned(vals[5])[1],
               nodes |-> ParseUnsigned(vals[6])[1],
               end_time |-> OptionalDateTime(vals[7])[1],
               dependency |-> OptionalString(vals[8], "(null)"),
               features |-> Str(vals[9]),
               array_job_id |-> Str(vals[10]),
               group |-> Str(vals[11]),
               step_job_id |-> StepJobId(Split(vals[12], "_")),
               time_limit |-> OptionalDuration(vals[13]),
               time_left |-> OptionalDuration(vals[14]),
               name |-> Str(vals[15]),
               min_memory |-> Str(vals[16]),
               time |-> OptionalDuration(vals[17]),
               priority |-> ParseF64(vals[18])[1],
               partition |-> Str(vals[19]),
               state |-> Str(vals[20]),
               reason |-> Str(vals[21]),
               start_time |-> OptionalDateTime(vals[22])[1],
               submit_time |-> ParseNaiveDateTime(vals[23])[1],
               work_dir |-> Str(vals[24]),
               command |-> Str(vals[25])])

\* The filter_map of get_squeue_res: the lines that are kept.
KeptLines(lines) ==
    SelectSeq(lines, LAMBDA line : line # <<>> /\ parse_from_strs(Split(line, "|")) # None)

RowsOf(kept) == [i \in 1..Len(kept) |-> parse_from_strs(Split(kept[i], "|"))[1]]

\* The first line that does not parse turns the batch into an error.
get_squeue_res_AbortsOnBadRow(result, time) ==
    IF result = None THEN None
    ELSE IF \E i \in 1..Len(Split(result[1], "\n")) :
                /\ Split(result[1], "\n")[i] # <<>>
                /\ parse_from_strs(Split(Split(result[1], "\n")[i], "|")) = None
    THEN None
    ELSE Some([time |-> time, rows |-> RowsOf(KeptLines(Split(result[1], "\n")))])

\* get_squeue_res, given what execute_cmd returned (None: Err) and the time
\* SystemTime::now() gives: Err, or Ok((time, rows)).
get_squeue_res(result, time) ==
    IF result = None THEN None
    ELSE Some([time |-> time, rows |-> RowsOf(KeptLines(Split(result[1], "\n")))])

\* The 25 fields of a line squeue prints for a pending job.
PendingLine(job) ==
    <<<<"a", "b">>, Digits(job), <<"n", "/", "a">>, <<"1">>, <<"4">>, <<"1">>,
      <<"N", "/", "A">>, <<"(", "n", "u", "l", "l", ")">>, <<"(", "n", "u", "l", "l", ")">>,
      Digits(job), <<"g", "1">>, Digits(job),
      <<"1", ":", "0", "0", ":", "0", "0">>, <<"1", ":", "0", "0", ":", "0", "0">>,
      <<"j">>, <<"4", "G">>, <<"0", ":", "0", "0">>, <<"0", ".", "5">>, <<"c", "2", "3">>,
      <<"P", "E", "N", "D", "I", "N", "G">>, <<"N", "o", "n", "e">>, <<"N", "/", "A">>,
      <<"2", "0", "2", "5", "-", "0", "1", "-", "0", "4", "T",
        "0", "0", ":", "5", "0", ":", "0", "0">>,
      <<"/", "w">>, <<"r", "u", "n">>>>

\* A running array task on a host, with a start time.
RunningLine(job) ==
    [PendingLine(job) EXCEPT
        ![3] = <<"n", "0", "0", "1">>,
        ![12] = Digits(job) \o <<"_", "7">>,
        ![20] = <<"R", "U", "N", "N", "I", "N", "G">>,
        ![22] = <<"2", "0", "2", "4", "-", "0", "2", "-", "2", "9", "T",
                  "2", "3", ":", "5", "9", ":", "5", "9">>]

\* A job in a state outside the nine, without limits, with a priority in
\* exponent form.
UnusualLine(job) ==
    [PendingLine(job) EXCEPT
        ![13] = <<"I", "N", "V", "A", "L", "I", "D">>,
        ![14] = <<"U", "N", "L", "I", "M", "I", "T", "E", "D">>,
        ![18] = <<"2", "e", "-", "3">>,
        ![20] = <<"R", "E", "Q", "U", "E", "U", "E", "D">>]

\* The lines squeue can print, by kind.
LineOf(kind) ==
    CASE kind = "pending" -> Join(PendingLine(1001), "|")
      [] kind = "running" -> Join(RunningLine(1002), "|")
      [] kind = "unusual" -> Join(UnusualLine(1003), "|")
      [] kind = "empty" -> <<>>
      [] kind = "cluster header" -> <<"C", "L", "U", "S", "T", "E", "R", ":", " ", "x">>
      [] kind = "command with a bar" ->
            Join([PendingLine(1004) EXCEPT ![25] = <<"a", "|", "b">>], "|")
      [] kind = "cpus not a number" -> Join([PendingLine(1005) EXCEPT ![5] = <<"-", "1">>], "|")
      [] kind = "priority not a number" -> Join([PendingLine(1006) EXCEPT ![18] = <<"x">>], "|")
      [] kind = "no submit time" ->
            Join([PendingLine(1007) EXCEPT ![23] = <<"N", "/", "A">>], "|")
      [] kind = "no such day" ->
            Join([RunningLine(1008) EXCEPT
                     ![22] = <<"2", "0", "2", "5", "-", "0", "2", "-", "2", "9", "T",
                               "0", "0", ":", "0", "0", ":", "0", "0">>], "|")

LineKinds == {"pending", "running", "unusual", "empty", "cluster header",
              "command with a bar", "cpus not a number", "priority not a number",
              "no submit time", "no such day"}

\* What execute_cmd can return: Ok(text of some lines) or Err.
SqueuePlans == UNION {[1..n -> LineKinds] : n \in 0..MaxLines}

SqueueText(plan) == Join([i \in 1..Len(plan) |-> LineOf(plan[i])], "\n")

GetSqueueRes ==
    /\ input.kind \in {"squeue", "squeue failed"}
    /\ parsed = None
    /\ parsed' = Some(get_squeue_res(IF input.kind = "squeue" THEN Some(input.text) ELSE None,
                                     now + 1))
    /\ now' = now + 1
    /\ UNCHANGED <<known_jobs, all_ids, fs_root, fs_ids, fs_jobs, feed, faults, crashed, last,
                   gaps, ocel, input, app_vars, sync_vars>>

\* Nothing polled yet: no known job, no archive.
EmptyArchive ==
    /\ known_jobs = <<>>
    /\ all_ids = {}
    /\ fs_root = FALSE
    /\ fs_ids = <<>>
    /\ fs_jobs = <<>>
    /\ now = 0
    /\ faults = 0
    /\ crashed = FALSE
    /\ last = NoRound
    /\ gaps = {}
    /\ ocel = None

ArchiveInit == EmptyArchive /\ feed \in Feeds

AppInit ==
    /\ looping_info = None
    /\ client = FALSE
    /\ tasks = <<>>
    /\ cmd = "none"
    /\ emitted = <<>>

ParseIdle == input = NoInput /\ parsed = None

\* No synthesis is running.
SyncIdle == closures = <<>> /\ sets = NoSets

Init == ArchiveInit /\ AppInit /\ ParseIdle /\ SyncIdle

Next ==
    \/ FetchFails
    \/ RootDirFails
    \/ IdFilePanics
    \/ WorkerPanics
    \/ Completes
    \/ extract_ocel_from_slurm_diffs

\* The poller and the synthesizer over one archive.
Spec == Init /\ [][Next]_vars

LoopInit == ArchiveInit /\ feed = OneJobFeed /\ AppInit /\ ParseIdle /\ SyncIdle

LoopNext ==
    \/ start_squeue_loop
    \/ stop_squeue_loop
    \/ login
    \/ logout
    \/ \E t \in 1..Len(tasks) : LoopTop(t)
    \/ \E t \in 1..Len(tasks) : LoopRound(t)
    \/ \E t \in 1..Len(tasks) : LoopRoundFails(t)
    \/ \E t \in 1..Len(tasks) : LoopCheck(t)
    \/ \E t \in 1..Len(tasks) : LoopSleep(t)
    \/ \E t \in 1..Len(tasks) : LoopNoClient(t)

\* The application: its commands and the loop tasks they spawn.
LoopSpec == LoopInit /\ [][LoopNext]_vars

\* The runtime runs every spawned task that can take a step, and the scheduler
\* command and the sleeps return.
FairLoopSpec ==
    /\ LoopInit
    /\ [][LoopNext]_vars
    /\ \A t \in 1..MaxTasks : WF_vars(t <= Len(tasks) /\ LoopProgress(t))

\* start_squeue_loop has returned: the folder is picked, looping_info is set
\* and the task is spawned with an empty known_jobs and all_ids; the user may
\* have logged in before.
RoundInit ==
    /\ EmptyArchive /\ feed = LoopFeed
    /\ ParseIdle /\ SyncIdle
    /\ \E I \in Intervals :
          /\ looping_info = Some([second_interval |-> I])
          /\ tasks = <<NewTask(I)>>
    /\ client \in BOOLEAN
    /\ cmd = "start: Loop running in background"
    /\ emitted = <<>>

RoundNext ==
    \/ stop_squeue_loop
    \/ login
    \/ logout
    \/ \E t \in 1..Len(tasks) : LoopTop(t)
    \/ \E t \in 1..Len(tasks) : LoopDiff(t)
    \/ \E t \in 1..Len(tasks) : LoopDiffFails(t)
    \/ \E t \in 1..Len(tasks) : LoopEmit(t)
    \/ \E t \in 1..Len(tasks) : LoopCheck(t)
    \/ \E t \in 1..Len(tasks) : LoopSleep(t)
    \/ \E t \in 1..Len(tasks) : LoopNoClient(t)

\* One loop task and the archive of its rounds.
RoundSpec == RoundInit /\ [][RoundNext]_vars

\* The directory of a job that squeue_diff found with the records of `life`
\* in the rounds at 1, 2, ..: the initial snapshot and a DELTA file for every
\* round with a difference.
JobDirOf(life) ==
    LET file(i) == WorkerFile(IF i = 1 THEN <<>> ELSE CollectKnown(<<life[i - 1]>>), i, life[i])
        written == {i \in 1..Len(life) : file(i) # None}
    IN  [n \in {file(i)[1].name : i \in written} |->
            file(CHOOSE i \in written : file(i)[1].name = n)[1].content]

\* A process that is given an archive written earlier and calls
\* extract_ocel_from_slurm_diffs on it.
ReplayInit ==
    /\ \E life \in Lives :
          /\ fs_jobs = (life[1].job_id :> JobDirOf(life))
          /\ fs_ids = [t \in 1..Len(life) |-> Ser({life[1].job_id})]
          /\ now = Len(life)
    /\ known_jobs = <<>>
    /\ all_ids = {}
    /\ fs_root = TRUE
    /\ feed = {}
    /\ faults = 0
    /\ crashed = FALSE
    /\ last = NoRound
    /\ gaps = {}
    /\ ocel = None
    /\ AppInit
    /\ ParseIdle /\ SyncIdle

\* The archives of two jobs given to the synthesizer whose closures run in
\* parallel: job 1001 pending then failed on n001, or running on n001 and
\* then on n002; job 1002 seen once, or moved to another group and partition.
LockLives == {<<RowA, RowB>>, <<RowRun, RowRun2>>} \X {<<RowZ>>, <<RowZ, RowZMoved>>}

\* extract_ocel_from_slurm_diffs has made the four sets and par_iter has
\* started the closures of the jobs.
LockInit ==
    /\ \E lives \in LockLives :
          /\ fs_jobs = ("1001" :> JobDirOf(lives[1])) @@ ("1002" :> JobDirOf(lives[2]))
          /\ fs_ids = [t \in 1..2 |-> Ser({"1001", "1002"})]
    /\ now = 2
    /\ known_jobs = <<>>
    /\ all_ids = {}
    /\ fs_root = TRUE
    /\ feed = {}
    /\ faults = 0
    /\ crashed = FALSE
    /\ last = NoRound
    /\ gaps = {}
    /\ ocel = None
    /\ AppInit
    /\ ParseIdle
    /\ closures = [j \in DOMAIN fs_jobs |-> NewWorker(fs_jobs[j])]
    /\ sets = NoSets

LockNext ==
    \/ \E j \in DOMAIN closures : WriteLock(j)
    \/ \E j \in DOMAIN closures : InsertUnlock(j)

\* The closures of the synthesizer and the four shared sets.
LockSpec == LockInit /\ [][LockNext]_vars

ReplayNext == extract_ocel_from_slurm_diffs

\* The synthesizer over the archive of one job.
ReplaySpec == ReplayInit /\ [][ReplayNext]_vars

DurationInit ==
    /\ ArchiveInit
    /\ feed = OneJobFeed
    /\ AppInit /\ SyncIdle
    /\ \E plan \in DurationPlans :
          input = [kind |-> "duration", plan |-> plan, text |-> DurationText(plan)]
    /\ parsed = None

DurationNext == ParseDuration

\* parse_slurm_duration over the duration texts.
DurationSpec == DurationInit /\ [][DurationNext]_vars

SqueueInit ==
    /\ ArchiveInit
    /\ feed = OneJobFeed
    /\ AppInit /\ SyncIdle
    /\ \/ \E plan \in SqueuePlans :
             input = [kind |-> "squeue", plan |-> plan, text |-> SqueueText(plan)]
       \/ input = [kind |-> "squeue failed", plan |-> <<>>, text |-> <<>>]
    /\ parsed = None

SqueueNext == GetSqueueRes

\* get_squeue_res over the outputs of squeue.
SqueueSpec == SqueueInit /\ [][SqueueNext]_vars

\* ---------------------------------------------------------------- properties
\* Two records differ on a field other than time and time_left.
DifferOutsideTime(p, c) == \E f \in (DOMAIN p) \ {"time", "time_left"} : p[f] # c[f]

InitialSnapshots(dir) == {n \in DOMAIN dir : ~n.delta}

\* C1: after a sequence of completed rounds every job subdirectory holds
\* exactly one initial-snapshot file (a file that is not a DELTA file),
\* whatever the pattern of presence and absence of the job across the rounds.
C1_OneInitialSnapshot ==
    ~crashed => \A j \in DOMAIN fs_jobs : Cardinality(InitialSnapshots(fs_jobs[j])) = 1

\* C2: in a completed round at T, the worker of a row whose job id was
\* remembered writes DELTA-{T}.json iff the remembered and the current record
\* differ on a field other than time and time_left, and the job's directory
\* holds DELTA-{T}.json iff one of the job's rows of that round differs so.
C2_DeltaIffDiffers ==
    last.result = "ok" =>
        /\ \A i \in 1..Len(last.rows) :
              last.rows[i].job_id \in DOMAIN last.prev_known =>
                  ((\E w \in last.writes : w.worker = i /\ w.name = DeltaName(last.t))
                   <=> DifferOutsideTime(last.prev_known[last.rows[i].job_id], last.rows[i]))
        /\ \A j \in (DOMAIN last.prev_known) \cap RowIds(last.rows) :
              (DeltaName(last.t) \in DOMAIN fs_jobs[j])
              <=> \E i \in 1..Len(last.rows) :
                     /\ last.rows[i].job_id = j
                     /\ DifferOutsideTime(last.prev_known[j], last.rows[i])

\* A round over two remembered jobs: one changed state, of the other only the
\* volatile fields moved; the first got a DELTA file and the second none.
C2_Witness ==
    /\ last.result = "ok"
    /\ last.rows = <<RowB, RowZ2>>
    /\ last.prev_known = CollectKnown(<<RowA, RowZ>>)
    /\ DeltaName(last.t) \in DOMAIN fs_jobs["1001"]
    /\ DeltaName(last.t) \notin DOMAIN fs_jobs["1002"]

\* C3: when no file operation failed, for a job present in every completed
\* round since it was first observed, replaying its directory (the initial
\* snapshot, then apply_mut of every DELTA file in file-name order) gives a
\* record equal, outside time and time_left, to a record of the job in the
\* latest round.
C3_ReplayGivesLatest ==
    (last.result = "ok" /\ faults = 0) =>
        \A j \in RowIds(last.rows) \ gaps :
            /\ JobWorker(fs_jobs[j], <<>>).status = "ok"
            /\ \E i \in 1..Len(last.rows) :
                  /\ last.rows[i].job_id = j
                  /\ ~DifferOutsideTime(JobWorker(fs_jobs[j], <<>>).row, last.rows[i])

HasDuplicate(seq, key(_)) ==
    \E i, k \in 1..Len(seq) : i # k /\ key(seq[i]) = key(seq[k])

IdOf(x) == x.id

\* C4: the OCEL that extract_ocel_from_slurm_diffs returns has no two events
\* with one id and no two objects with one id.
C4_UniqueIds ==
    (ocel # None /\ ocel[1].status = "ok") =>
        /\ ~HasDuplicate(ocel[1].events, IdOf)
        /\ ~HasDuplicate(ocel[1].objects, IdOf)

RelationshipTargets(x) == {x.relationships[i].objectId : i \in 1..Len(x.relationships)}

ObjectIds(o) == {o.objects[i].id : i \in 1..Len(o.objects)}

\* C5: in the OCEL returned, every relationship of every object and of every
\* event targets the id of an object of the objects list.
C5_TargetsAreObjects ==
    (ocel # None /\ ocel[1].status = "ok") =>
        /\ \A i \in 1..Len(ocel[1].objects) :
              RelationshipTargets(ocel[1].objects[i]) \subseteq ObjectIds(ocel[1])
        /\ \A i \in 1..Len(ocel[1].events) :
              RelationshipTargets(ocel[1].events[i]) \subseteq ObjectIds(ocel[1])

\* An OCEL over two jobs, one of which got its host from a DELTA file.
C5_Witness ==
    /\ ocel # None /\ ocel[1].status = "ok"
    /\ \E i \in 1..Len(ocel[1].objects) :
          /\ ocel[1].objects[i].id = "1001"
          /\ "host_n001" \in RelationshipTargets(ocel[1].objects[i])
    /\ \E i \in 1..Len(ocel[1].events) :
          "host_n012" \in RelationshipTargets(ocel[1].events[i])
    /\ {"host_n001", "host_n012", "acc_xy001", "acc_thes1234"} \subseteq ObjectIds(ocel[1])

\* C9: a round in which the creation of a file failed (the id-set file, a
\* job's initial snapshot or a job's DELTA file) returns Ok and has put the
\* round's job ids into all_ids and the round's rows into known_jobs.
C9_FileFailureKeepsRound ==
    (last.step \in {"ids", "file"}) =>
        /\ last.result = "ok"
        /\ known_jobs = CollectKnown(last.rows)
        /\ RowIds(last.rows) \subseteq all_ids

\* C10: a round that returned the error of the fetch or of the creation of
\* the root directory, or that panicked, leaves known_jobs and all_ids as they
\* were before it.
C10_FailedRoundKeepsMemory ==
    last.result \in {"err", "panic"} =>
        /\ known_jobs = last.prev_known
        /\ all_ids = last.prev_ids

\* The root directory could not be created in a round after completed rounds.
C10_Witness ==
    /\ last.result = "err" /\ last.step = "root"
    /\ known_jobs # <<>>
    /\ all_ids # {}

\* C6: start_squeue_loop while looping_info is Some returns an error, spawns
\* no task and leaves looping_info as it is.
C6_StartWhileRunningRejected ==
    [][(looping_info # None /\ start_squeue_loop) =>
          /\ cmd' # "start: Loop running in background"
          /\ UNCHANGED <<looping_info, tasks>>]_vars

\* C7: once stop_squeue_loop has succeeded, and as long as no further command
\* is issued, every live loop task ends, whatever its interval.
C7_StoppedLoopTerminates ==
    \A t \in 1..MaxTasks :
        (t <= Len(tasks) /\ Alive(t) /\ cmd = "stop: Stopped Loop" /\ looping_info = None)
            ~> ((t <= Len(tasks) /\ ~Alive(t)) \/ cmd # "stop: Stopped Loop")

\* C8: a loop task that finds no client at the top of the loop starts no
\* round; leaving the no-client branch it has set looping_info to None and is
\* done; and a live loop task ends with looping_info None once the client is
\* absent, unless a login brings the client back.
C8_NoSessionEndsLoop ==
    /\ [][\A t \in 1..Len(tasks) :
            /\ (tasks[t].pc = "top" /\ ~client /\ tasks'[t].pc # "top")
                  => tasks'[t].pc = "no_client"
            /\ (tasks[t].pc = "no_client" /\ tasks'[t].pc # "no_client")
                  => (tasks'[t].pc = "done" /\ looping_info' = None)]_vars
    /\ \A t \in 1..MaxTasks :
          (t <= Len(tasks) /\ Alive(t) /\ ~client)
              ~> ((t <= Len(tasks) /\ tasks[t].pc = "done" /\ looping_info = None) \/ client)

\* After a logout the loop task has ended through the no-client branch.
C8_Witness ==
    /\ cmd = "logout: OK"
    /\ ~client
    /\ looping_info = None
    /\ Len(tasks) = 1 /\ tasks[1].pc = "done"

OcelOk == ocel # None /\ ocel[1].status = "ok"

\* The events of ocel `o` that belong to job j, in the order of o.events.
JobEvents(o, j) == SelectSeq(o.events, LAMBDA e : e.relationships[1] = Rel(j, "job"))

EventsOfType(evs, type) == SelectSeq(evs, LAMBDA e : e.event_type = type)

\* The record of the initial snapshot of a job directory.
SnapshotOf(dir) == dir[CHOOSE n \in DOMAIN dir : ~n.delta].val

RelSet(x) == {x.relationships[i] : i \in 1..Len(x.relationships)}

AttrSet(x) == {x.attributes[i] : i \in 1..Len(x.attributes)}

JobObject(o, j) == o.objects[CHOOSE i \in 1..Len(o.objects) : o.objects[i].id = j]

\* C11: a job directory with a file that does not parse is skipped and
\* nothing more: extract_ocel_from_slurm_diffs returns an OCEL, and the OCEL
\* holds the Job object of every job whose own files parse.
C11_BadJobSkippedOnly ==
    ocel # None =>
        /\ ocel[1].status = "ok"
        /\ \A j \in DOMAIN fs_jobs :
              JobWorker(fs_jobs[j], <<>>).status = "ok" => j \in ObjectIds(ocel[1])

\* C12: for every job directory with an initial snapshot the job has exactly
\* one Submit Job event; it is the first event of the job, its time is the
\* snapshot's submit_time minus one hour, in UTC, and its relationships are
\* job -> the job id and submitter -> acc_ of the normalized account.
C12_OneSubmitFirst ==
    OcelOk =>
        \A j \in DOMAIN fs_jobs :
            /\ Len(EventsOfType(JobEvents(ocel[1], j), "Submit Job")) = 1
            /\ JobEvents(ocel[1], j)[1].event_type = "Submit Job"
            /\ JobEvents(ocel[1], j)[1].time
                  = [instant |-> SnapshotOf(fs_jobs[j]).submit_time - 3600, offset |-> 0]
            /\ JobEvents(ocel[1], j)[1].relationships
                  = <<Rel(j, "job"),
                      Rel("acc_" \o NormalizedAccount(SnapshotOf(fs_jobs[j])), "submitter")>>

\* The job submitted under the default account, with more events after its
\* Submit Job event.
C12_Witness ==
    /\ OcelOk
    /\ "1002" \in DOMAIN fs_jobs
    /\ Len(JobEvents(ocel[1], "1002")) = 3
    /\ Rel("acc_xy001", "submitter") \in RelSet(JobEvents(ocel[1], "1002")[1])

OnlySnapshot(dir) == \A n \in DOMAIN dir : ~n.delta

\* C13 as claimed: a job whose directory holds the initial snapshot and no
\* DELTA file has one Job object, a Submit Job event and no Job Started event,
\* whatever the state and start_time of the snapshot.
C13_OnceObservedNoStart ==
    OcelOk =>
        \A j \in DOMAIN fs_jobs :
            OnlySnapshot(fs_jobs[j]) =>
                /\ Len(SelectSeq(ocel[1].objects, LAMBDA o : o.id = j)) = 1
                /\ Len(EventsOfType(JobEvents(ocel[1], j), "Submit Job")) = 1
                /\ EventsOfType(JobEvents(ocel[1], j), "Job Started") = <<>>

StartStaged(row) == row.state # "PENDING" /\ row.start_time # None

\* C13 as amended: such a job has one Job object and one Submit Job event; it
\* has no Job Started event when the snapshot's state is PENDING or its
\* start_time is unset, and otherwise one Job Started event, after the Submit
\* Job event, at start_time minus one hour.
C13_OnceObservedStartIfStaged ==
    OcelOk =>
        \A j \in DOMAIN fs_jobs :
            OnlySnapshot(fs_jobs[j]) =>
                /\ Len(SelectSeq(ocel[1].objects, LAMBDA o : o.id = j)) = 1
                /\ Len(JobEvents(ocel[1], j)) = IF StartStaged(SnapshotOf(fs_jobs[j])) THEN 2 ELSE 1
                /\ JobEvents(ocel[1], j)[1].event_type = "Submit Job"
                /\ StartStaged(SnapshotOf(fs_jobs[j])) =>
                      /\ JobEvents(ocel[1], j)[2].event_type = "Job Started"
                      /\ JobEvents(ocel[1], j)[2].time.instant
                            = SnapshotOf(fs_jobs[j]).start_time[1] - 3600

\* A job seen once, pending with an estimated start_time: only the Submit Job
\* event.
C13_Witness ==
    /\ OcelOk
    /\ DOMAIN fs_jobs = {"1001"}
    /\ OnlySnapshot(fs_jobs["1001"])
    /\ SnapshotOf(fs_jobs["1001"]) = RowAEst
    /\ Len(ocel[1].events) = 1

HostNeverChanges(dir) ==
    \A n \in DOMAIN dir :
        n.delta => \A i \in 1..Len(dir[n].val) : dir[n].val[i][1] # "exec_host"

\* C14: every Job Started event has the relationships job and for (to a
\* group_ object) and, for a job whose exec_host is known from the initial
\* snapshot on and never changes, the relationship host to that host.
C14_StartCarriesGroupAndHost ==
    OcelOk =>
        \A j \in DOMAIN fs_jobs :
        \A i \in 1..Len(EventsOfType(JobEvents(ocel[1], j), "Job Started")) :
            LET e == EventsOfType(JobEvents(ocel[1], j), "Job Started")[i]
            IN  /\ Rel(j, "job") \in RelSet(e)
                /\ \E r \in RelSet(e) : r.qualifier = "for"
                /\ (SnapshotOf(fs_jobs[j]).exec_host # None /\ HostNeverChanges(fs_jobs[j]))
                      => Rel("host_" \o SnapshotOf(fs_jobs[j]).exec_host[1], "host") \in RelSet(e)

\* The event type of each state that has one.
StateEventType ==
    [s \in {"COMPLETING", "COMPLETED", "CANCELLED", "FAILED", "TIMEOUT", "OUT_OF_MEMORY",
            "NODE_FAIL"} |->
        CASE s = "COMPLETING" -> "Job Ending"
          [] s = "COMPLETED" -> "Job Completed"
          [] s = "CANCELLED" -> "Job Cancelled"
          [] s = "FAILED" -> "Job Failed"
          [] s = "TIMEOUT" -> "Job Timeout"
          [] s = "OUT_OF_MEMORY" -> "Job Out Of Memory"
          [] s = "NODE_FAIL" -> "Job Node Fail"]

\* The events of job j at the time of the file named n.
EventsAt(o, j, n) == SelectSeq(JobEvents(o, j), LAMBDA e : e.time = [instant |-> n.t, offset |-> 0])

\* C15: for every DELTA file at Ti that changes the state to s, the Job has a
\* state attribute at Ti; when s is one of the seven states with an event type
\* the job has exactly one event at Ti, of that type, and when s is RUNNING,
\* PENDING or another state it has no event at Ti.
C15_StateChangeEvents ==
    OcelOk =>
        \A j \in DOMAIN fs_jobs :
        \A n \in {m \in DOMAIN fs_jobs[j] : m.delta} :
        \A i \in 1..Len(fs_jobs[j][n].val) :
            fs_jobs[j][n].val[i][1] = "state" =>
                /\ \E a \in AttrSet(JobObject(ocel[1], j)) :
                      /\ a.name = "state"
                      /\ a.time = [instant |-> n.t, offset |-> 0]
                /\ IF fs_jobs[j][n].val[i][2] \in DOMAIN StateEventType
                   THEN /\ Len(EventsAt(ocel[1], j, n)) = 1
                        /\ EventsAt(ocel[1], j, n)[1].event_type
                              = StateEventType[fs_jobs[j][n].val[i][2]]
                   ELSE EventsAt(ocel[1], j, n) = <<>>

\* A job polled as pending, then lost with its node, then running again: one
\* Job Node Fail event at 2 and no event at 3.
C15_Witness ==
    /\ OcelOk
    /\ DOMAIN fs_jobs = {"1001"}
    /\ DOMAIN fs_jobs["1001"] = {SnapName(1), DeltaName(2), DeltaName(3)}
    /\ EventsOfType(ocel[1].events, "Job Node Fail") # <<>>
    /\ \E a \in AttrSet(JobObject(ocel[1], "1001")) :
          a.name = "state" /\ a.value = "RUNNING" /\ a.time = [instant |-> 3, offset |-> 0]

\* For every job of the archive, its events in the OCEL o.
EventsByJob(o) == [j \in DOMAIN fs_jobs |-> JobEvents(o, j)]

\* C19: of every job, the events in the OCEL returned are the events (ids,
\* types, times, relationships, in the same order) that a run with the
\* workers finishing in any other order returns.
C19_SameEventsEveryOrder ==
    OcelOk =>
        \A order \in JobOrders(DOMAIN fs_jobs) :
            EventsByJob(ExtractOcel(fs_jobs, order)) = EventsByJob(ocel[1])

\* An OCEL over two jobs, each with an event made while the DELTA files were
\* replayed.
C19_Witness ==
    /\ OcelOk
    /\ DOMAIN fs_jobs = {"1001", "1002"}
    /\ EventsOfType(JobEvents(ocel[1], "1001"), "Job Failed") # <<>>
    /\ Len(JobEvents(ocel[1], "1002")) >= 2

\* The round of this step completed and found every row known and equal to
\* its remembered record outside time and time_left.
ZeroDeltaRound ==
    /\ last' # last
    /\ last'.result = "ok"
    /\ \A i \in 1..Len(last'.rows) :
          /\ last'.rows[i].job_id \in DOMAIN last'.prev_known
          /\ ~DifferOutsideTime(last'.prev_known[last'.rows[i].job_id], last'.rows[i])

\* C20 as claimed: a zero-delta round creates no file in the archive.
C20_ZeroDeltaNoFiles ==
    [][ZeroDeltaRound => (fs_jobs' = fs_jobs /\ DOMAIN fs_ids' = DOMAIN fs_ids)]_vars

\* C20 as amended: a zero-delta round that completes creates one file, the
\* id-set file {T}.json at the root, and no file in a job subdirectory.
C20_ZeroDeltaOnlyIdFile ==
    [][ZeroDeltaRound => (fs_jobs' = fs_jobs /\ DOMAIN fs_ids' = DOMAIN fs_ids \cup {last'.t}
                          /\ last'.t \notin DOMAIN fs_ids)]_vars

\* A completed round over a remembered job of which only the volatile fields
\* moved.
C20_Witness ==
    /\ last.result = "ok"
    /\ last.rows = <<RowA2>>
    /\ last.prev_known = CollectKnown(<<RowA>>)
    /\ last.writes = {}
    /\ last.t \in DOMAIN fs_ids

\* The numbers of ':'-separated components of the groups of a duration text.
ShapeOf(plan) == [g \in 1..Len(plan) |-> Len(plan[g])]

\* The text is one of D-H:M:S, D-H, H:M:S, M:S, M over numbers.
WellShaped(plan) ==
    /\ \A g \in 1..Len(plan) : \A i \in 1..Len(plan[g]) : plan[g][i] >= 0
    /\ ShapeOf(plan) \in {<<1, 3>>, <<1, 1>>, <<3>>, <<2>>, <<1>>}

ClaimedSeconds(plan) ==
    CASE ShapeOf(plan) = <<1, 3>> ->
            86400 * plan[1][1] + 3600 * plan[2][1] + 60 * plan[2][2] + plan[2][3]
      [] ShapeOf(plan) = <<1, 1>> -> 86400 * plan[1][1] + 3600 * plan[2][1]
      [] ShapeOf(plan) = <<3>> -> 3600 * plan[1][1] + 60 * plan[1][2] + plan[1][3]
      [] ShapeOf(plan) = <<2>> -> 60 * plan[1][1] + plan[1][2]
      [] ShapeOf(plan) = <<1>> -> 60 * plan[1][1]

\* C17: for a text D-H:M:S, D-H, H:M:S, M:S or M, parse_slurm_duration
\* returns 86400*D + 3600*H + 60*M + S seconds (with the absent components
\* counted as 0, and the single component read as hours after a day prefix
\* and as minutes without one).
C17_DurationValue ==
    (input.kind = "duration" /\ parsed # None /\ WellShaped(input.plan))
        => parsed[1] = Some(ClaimedSeconds(input.plan))

\* C18: for a text of any other shape (more than one '-', a day prefix
\* followed by two ':'-separated parts, more than three ':'-separated parts,
\* a component that is no number) parse_slurm_duration returns an error.
C18_OtherShapesRejected ==
    (input.kind = "duration" /\ parsed # None /\ ~WellShaped(input.plan))
        => parsed[1] = None

\* The record of each line that is to be kept.
PendingRow ==
    [account |-> "ab", job_id |-> "1001", exec_host |-> None, min_cpus |-> 1, cpus |-> 4,
     nodes |-> 1, end_time |-> None, dependency |-> None, features |-> "(null)",
     array_job_id |-> "1001", group |-> "g1", step_job_id |-> <<"1001", None>>,
     time_limit |-> Some(3600), time_left |-> Some(3600), name |-> "j", min_memory |-> "4G",
     time |-> Some(0),
     priority |-> [special |-> "", neg |-> FALSE, whole |-> 0, frac |-> "5", exp |-> 0],
     partition |-> "c23", state |-> "PENDING", reason |-> "None", start_time |-> None,
     submit_time |-> [year |-> 2025, month |-> 1, day |-> 4, hour |-> 0, minute |-> 50,
                      second |-> 0],
     work_dir |-> "/w", command |-> "run"]

RunningRow ==
    [PendingRow EXCEPT
        !.job_id = "1002", !.array_job_id = "1002", !.exec_host = Some("n001"),
        !.step_job_id = <<"1002", Some("7")>>, !.state = "RUNNING",
        !.start_time = Some([year |-> 2024, month |-> 2, day |-> 29, hour |-> 23,
                             minute |-> 59, second |-> 59])]

UnusualRow ==
    [PendingRow EXCEPT
        !.job_id = "1003", !.array_job_id = "1003", !.step_job_id = <<"1003", None>>,
        !.time_limit = None, !.time_left = None, !.state = "REQUEUED",
        !.priority = [special |-> "", neg |-> FALSE, whole |-> 2, frac |-> "", exp |-> -3]]

RowOfKind(kind) ==
    CASE kind = "pending" -> PendingRow
      [] kind = "running" -> RunningRow
      [] kind = "unusual" -> UnusualRow

\* C16: when execute_cmd returned a text, get_squeue_res returns Ok, and
\* its rows are the records of the lines that are not empty and parse, one
\* per such line and in the order of the lines; the empty lines and the
\* lines that do not parse (a field count other than 25, a bad number, a bad
\* date) are left out.
C16_BadRowsSkipped ==
    (input.kind = "squeue" /\ parsed # None) =>
        /\ parsed[1] # None
        /\ parsed[1][1].rows
              = [i \in 1..Len(SelectSeq(input.plan,
                                        LAMBDA k : k \in {"pending", "running", "unusual"})) |->
                    RowOfKind(SelectSeq(input.plan,
                                        LAMBDA k : k \in {"pending", "running", "unusual"})[i])]

\* An output whose first line does not parse and whose second line does.
C16_Witness ==
    /\ input.kind = "squeue"
    /\ input.plan = <<"command with a bar", "running">>
    /\ parsed # None
    /\ parsed[1] # None
    /\ Len(parsed[1][1].rows) = 1

\* C21: an OCEL in which two events or two objects carry one id is never
\* what extract_ocel_from_slurm_diffs returns: when the assembled OCEL would
\* hold a duplicate, the call fails.
C21_DuplicateIdFatal ==
    [][ocel' # ocel =>
          \A order \in JobOrders(DOMAIN fs_jobs) :
              (/\ ExtractOcel(fs_jobs, order).status = "ok"
               /\ \/ HasDuplicate(ExtractOcel(fs_jobs, order).events, IdOf)
                  \/ HasDuplicate(ExtractOcel(fs_jobs, order).objects, IdOf))
                  => ocel' # Some(ExtractOcel(fs_jobs, order))]_vars

IdPrefixes == {"submit", "start", "ending", "ended", "cancelled", "failed", "timeout",
               "oom", "node-fail"}

\* The id of e is {prefix}-{j}-{n} for one of the nine prefixes.
HasIdForm(e, j, n) == \E prefix \in IdPrefixes : e.id = prefix \o "-" \o j \o "-" \o ToString(n)

SequenceNumbers == 0..(MaxDeltas + 2)

\* C25: every event id is {type-prefix}-{job_id}-{sequence} with one of the
\* nine prefixes, and along the events of a job the sequence numbers strictly
\* increase.
C25_EventIdScheme ==
    OcelOk =>
        \A j \in DOMAIN fs_jobs :
            /\ \A i \in 1..Len(JobEvents(ocel[1], j)) :
                  \E n \in SequenceNumbers : HasIdForm(JobEvents(ocel[1], j)[i], j, n)
            /\ \A i, k \in 1..Len(JobEvents(ocel[1], j)) :
               \A n, m \in SequenceNumbers :
                  (/\ i < k
                   /\ HasIdForm(JobEvents(ocel[1], j)[i], j, n)
                   /\ HasIdForm(JobEvents(ocel[1], j)[k], j, m)) => n < m

\* C26: a job has at most one Job Started event, and when it has one it is
\* the last event of the job.
C26_OneStartLast ==
    OcelOk =>
        \A j \in DOMAIN fs_jobs :
            /\ Len(EventsOfType(JobEvents(ocel[1], j), "Job Started")) <= 1
            /\ \A i \in 1..Len(JobEvents(ocel[1], j)) :
                  JobEvents(ocel[1], j)[i].event_type = "Job Started"
                      => i = Len(JobEvents(ocel[1], j))

\* A job with a Submit Job event, the event of a state change and, after
\* both, its Job Started event.
C26_Witness ==
    /\ OcelOk
    /\ DOMAIN fs_jobs = {"1001"}
    /\ Len(ocel[1].events) = 3
    /\ ocel[1].events[2].event_type = "Job Timeout"
    /\ ocel[1].events[3].event_type = "Job Started"

\* The times of the DELTA files of a directory.
DeltaTimes(dir) == {n.t : n \in {m \in DOMAIN dir : m.delta}}

HasEntry(dir, t, f) ==
    \E i \in 1..Len(dir[DeltaName(t)].val) : dir[DeltaName(t)].val[i][1] = f

EntryValue(dir, t, f) ==
    dir[DeltaName(t)].val[CHOOSE i \in 1..Len(dir[DeltaName(t)].val) :
                              dir[DeltaName(t)].val[i][1] = f][2]

\* The state of the job after the whole DELTA at t was applied.
StateAfter(dir, t) ==
    IF \E u \in DeltaTimes(dir) : u <= t /\ HasEntry(dir, u, "state")
    THEN EntryValue(dir, Max({u \in DeltaTimes(dir) : u <= t /\ HasEntry(dir, u, "state")}),
                    "state")
    ELSE SnapshotOf(dir).state

\* The DELTA files that change start_time to a present value and leave the
\* job in a state other than PENDING.
StartRefinedAt(dir) ==
    {t \in DeltaTimes(dir) : /\ HasEntry(dir, t, "start_time")
                             /\ StateAfter(dir, t) # "PENDING"
                             /\ EntryValue(dir, t, "start_time") # None}

\* C27: the job has a Job Started event exactly when one was staged from the
\* initial snapshot or some DELTA changes start_time to a present value while
\* the state after that DELTA is not PENDING; its time is the start_time of
\* the last such DELTA (minus one hour), else the staged time; the DELTAs
\* that leave the job PENDING or make start_time absent change nothing; and a
\* staged event keeps its id and its relationships.
C27_StartTimeRefines ==
    OcelOk =>
        \A j \in DOMAIN fs_jobs :
            /\ (EventsOfType(JobEvents(ocel[1], j), "Job Started") # <<>>)
                  <=> (StartStaged(SnapshotOf(fs_jobs[j])) \/ StartRefinedAt(fs_jobs[j]) # {})
            /\ \A i \in 1..Len(EventsOfType(JobEvents(ocel[1], j), "Job Started")) :
                  /\ EventsOfType(JobEvents(ocel[1], j), "Job Started")[i].time.instant
                        = IF StartRefinedAt(fs_jobs[j]) # {}
                          THEN EntryValue(fs_jobs[j], Max(StartRefinedAt(fs_jobs[j])),
                                          "start_time")[1] - 3600
                          ELSE SnapshotOf(fs_jobs[j]).start_time[1] - 3600
                  /\ StartStaged(SnapshotOf(fs_jobs[j])) =>
                        /\ EventsOfType(JobEvents(ocel[1], j), "Job Started")[i].id
                              = "start-" \o j \o "-1"
                        /\ Rel("group_" \o SnapshotOf(fs_jobs[j]).group, "for")
                              \in RelSet(EventsOfType(JobEvents(ocel[1], j), "Job Started")[i])

\* A job first seen running on n001 (start staged at 7800), then pending
\* with a new estimate, then running on n002 from 7900 on: the staged event
\* with the last start time.
C27_Witness ==
    /\ OcelOk
    /\ DOMAIN fs_jobs = {"1001"}
    /\ SnapshotOf(fs_jobs["1001"]) = RowRun
    /\ DeltaTimes(fs_jobs["1001"]) = {2, 3}
    /\ StateAfter(fs_jobs["1001"], 2) = "PENDING"
    /\ HasEntry(fs_jobs["1001"], 2, "start_time")
    /\ StartRefinedAt(fs_jobs["1001"]) = {3}
    /\ \E i \in 1..Len(ocel[1].events) :
          /\ ocel[1].events[i].id = "start-1001-1"
          /\ ocel[1].events[i].time.instant = 7900 - 3600

\* C28: for every DELTA that changes the account to a, the OCEL holds the
\* Account object acc_{a}.
C28_AccountChangeRegistered ==
    OcelOk =>
        \A j \in DOMAIN fs_jobs :
        \A t \in DeltaTimes(fs_jobs[j]) :
            HasEntry(fs_jobs[j], t, "account")
                => ("acc_" \o EntryValue(fs_jobs[j], t, "account")) \in ObjectIds(ocel[1])

SubmissionQualifiers == {"submitted by", "submitted by group", "submitted on"}

\* C29: the submitted by, submitted by group and submitted on relationships
\* of a Job object are the three of the initial snapshot, whatever the DELTA
\* files change, and the submitter of the Submit Job event is the account of
\* the initial snapshot.
C29_SubmissionRelationshipsFixed ==
    OcelOk =>
        \A j \in DOMAIN fs_jobs :
            /\ SelectSeq(JobObject(ocel[1], j).relationships,
                         LAMBDA r : r.qualifier \in SubmissionQualifiers)
                  = <<Rel("acc_" \o NormalizedAccount(SnapshotOf(fs_jobs[j])), "submitted by"),
                      Rel("group_" \o SnapshotOf(fs_jobs[j]).group, "submitted by group"),
                      Rel("part_" \o SnapshotOf(fs_jobs[j]).partition, "submitted on")>>
            /\ \A i \in 1..Len(JobEvents(ocel[1], j)) :
               \A r \in RelSet(JobEvents(ocel[1], j)[i]) :
                  r.qualifier = "submitter"
                      => r.objectId = "acc_" \o NormalizedAccount(SnapshotOf(fs_jobs[j]))

\* A job whose DELTA changes account, group and partition.
C29_Witness ==
    /\ OcelOk
    /\ DOMAIN fs_jobs = {"1002"}
    /\ \E t \in DeltaTimes(fs_jobs["1002"]) :
          /\ HasEntry(fs_jobs["1002"], t, "account")
          /\ HasEntry(fs_jobs["1002"], t, "group")
          /\ HasEntry(fs_jobs["1002"], t, "partition")

\* The task is between `state.read().await` and `drop(l)`.
InRound(t) == tasks[t].pc \in {"round", "emit"}

\* C22: every round the loop completes publishes exactly one squeue-rows
\* event, carrying the timestamp and the rows of that round; the event is
\* published when the archive files of the round are written and known_jobs
\* and all_ids are updated, and before the first check and sleep of the for
\* loop.
C22_OneEventPerRound ==
    /\ [](\A t \in 1..Len(tasks) :
            /\ tasks[t].pc # "panicked"
                  => Len(emitted) = (IF tasks[t].pc = "emit" THEN now - 1 ELSE now)
            /\ tasks[t].pc \in {"check", "sleep"}
                  => emitted[now] = [time |-> last.t, rows |-> last.rows])
    /\ [](\A i \in 1..Len(emitted) : emitted[i].time = i /\ emitted[i].rows \in feed)
    /\ [][emitted' # emitted =>
            /\ \E t \in 1..Len(tasks) :
                  tasks[t].pc = "emit" /\ tasks'[t].pc \in {"check", "top"}
            /\ last.result = "ok" /\ last.t = now
            /\ emitted' = Append(emitted, [time |-> now, rows |-> last.rows])
            /\ known_jobs = CollectKnown(last.rows)
            /\ RowIds(last.rows) \subseteq all_ids
            /\ now \in DOMAIN fs_ids
            /\ \A w \in last.writes : w.name \in DOMAIN fs_jobs[w.job]]_vars

\* Two rounds are published, the job pending and then failed, and the task
\* sleeps.
C22_Witness ==
    /\ Len(emitted) = 2
    /\ emitted[1].rows = <<RowA>>
    /\ emitted[2].rows = <<RowB>>
    /\ \E t \in 1..Len(tasks) : tasks[t].pc = "sleep"

\* C23: for an interval I >= 1 the task goes from one round to the next
\* through exactly I sleeps of one second, each after a check of
\* looping_info.
C23_SleepsPerInterval ==
    [][\A t \in 1..Len(tasks) :
          (/\ tasks[t].interval >= 1
           /\ tasks[t].pc \in {"round", "sleep"}
           /\ tasks'[t].pc = "top")
              => (tasks[t].pc = "sleep" /\ tasks[t].k = tasks[t].interval)]_vars

\* C24: a task that is in one of its sleeps when stop_squeue_loop has
\* returned comes to a check of looping_info next, where it ends: it does
\* not go on to the head of the loop and the next scheduler command.
C24_StopDuringSleepEndsLoop ==
    [][\A t \in 1..Len(tasks) :
          (/\ tasks[t].pc = "sleep"
           /\ looping_info = None
           /\ cmd = "stop: Stopped Loop"
           /\ client)
              => tasks'[t].pc # "top"]_vars

\* C30: while a task is between the session check and the drop of its read
\* guard, no command changes looping_info or the client or returns, and the
\* client is present.
C30_RoundAtomic ==
    /\ [](\A t \in 1..Len(tasks) : InRound(t) => client)
    /\ [][(\E t \in 1..Len(tasks) : InRound(t))
            => (looping_info' = looping_info /\ client' = client /\ cmd' = cmd)]_vars

\* After a login, the first round is done and its result is about to be
\* published.
C30_Witness ==
    /\ cmd = "login: OK"
    /\ \E t \in 1..Len(tasks) : tasks[t].pc = "emit"
    /\ last.result = "ok"

\* The times of the files of a directory: the polls in which the job's
\* record was written or changed.
ReplayTimes(dir) == {n.t : n \in DOMAIN dir}

\* The start_time of the job after the whole DELTA at t was applied.
StartTimeAfter(dir, t) ==
    IF \E u \in DeltaTimes(dir) : u <= t /\ HasEntry(dir, u, "start_time")
    THEN EntryValue(dir, Max({u \in DeltaTimes(dir) : u <= t /\ HasEntry(dir, u, "start_time")}),
                    "start_time")
    ELSE SnapshotOf(dir).start_time

\* C36: a job whose replayed record is, after some file, in a state other
\* than PENDING with start_time set has a Job Started event.
C36_StartedJobHasStartEvent ==
    OcelOk =>
        \A j \in DOMAIN fs_jobs :
            (\E t \in ReplayTimes(fs_jobs[j]) :
                /\ StateAfter(fs_jobs[j], t) # "PENDING"
                /\ StartTimeAfter(fs_jobs[j], t) # None)
                => EventsOfType(JobEvents(ocel[1], j), "Job Started") # <<>>

\* C37: the relationships of a Job object are pairwise different.
C37_JobRelationshipsDistinct ==
    OcelOk =>
        \A j \in DOMAIN fs_jobs :
        \A i, k \in 1..Len(JobObject(ocel[1], j).relationships) :
            i # k => JobObject(ocel[1], j).relationships[i]
                        # JobObject(ocel[1], j).relationships[k]

\* C38: every attribute of a Job object has one of the names declared for
\* the object type Job.
C38_JobAttributesDeclared ==
    OcelOk =>
        \A j \in DOMAIN fs_jobs :
        \A i \in 1..Len(JobObject(ocel[1], j).attributes) :
            JobObject(ocel[1], j).attributes[i].name \in JobAttributeNames

\* C32: after a completed round known_jobs maps exactly the job ids of the
\* round, each to a record of that round; the worker of a row whose job was
\* not remembered, also one seen in an earlier round, writes the snapshot
\* {T}.json and no DELTA file; and a round that does not complete leaves the
\* map of the round before: the map is replaced once, after the workers.
C32_KnownJobsIsLatestRound ==
    /\ last.result = "ok" =>
          /\ DOMAIN known_jobs = RowIds(last.rows)
          /\ \A j \in DOMAIN known_jobs :
                \E i \in 1..Len(last.rows) :
                    last.rows[i].job_id = j /\ known_jobs[j] = last.rows[i]
          /\ \A i \in 1..Len(last.rows) :
                last.rows[i].job_id \notin DOMAIN last.prev_known =>
                    /\ \E w \in last.writes : w.worker = i /\ w.name = SnapName(last.t)
                    /\ ~\E w \in last.writes : w.worker = i /\ w.name = DeltaName(last.t)
    /\ last.result \in {"err", "panic"} => known_jobs = last.prev_known

\* A job of an earlier round that was absent from the round before is back
\* and gets a snapshot file.
C32_Witness ==
    /\ last.result = "ok"
    /\ \E i \in 1..Len(last.rows) :
          /\ last.rows[i].job_id \in last.prev_ids \ DOMAIN last.prev_known
          /\ last.rows[i].job_id \in DOMAIN known_jobs
          /\ SnapName(last.t) \in DOMAIN fs_jobs[last.rows[i].job_id]

\* C35: in a completed round no two workers write one path: the writes of
\* two workers differ in the job directory or in the file name.
C35_OneWriterPerFile ==
    last.result = "ok" =>
        \A v, w \in last.writes :
            (v.job = w.job /\ v.name = w.name) => v.worker = w.worker

\* C39: all_ids never loses an id; a completed round extends it by the job
\* ids of the round and by nothing else; it holds every key of known_jobs;
\* and the workers that print the re-appeared warning are those of the rows
\* whose job id is in all_ids and not in known_jobs.
C39_AllIdsGrows ==
    /\ [](DOMAIN known_jobs \subseteq all_ids)
    /\ [](last.result = "ok" =>
            last.warned = {i \in 1..Len(last.rows) :
                              last.rows[i].job_id \in last.prev_ids \ DOMAIN last.prev_known})
    /\ [][/\ all_ids \subseteq all_ids'
          /\ (now' # now /\ last'.result = "ok")
                => all_ids' = all_ids \cup RowIds(last'.rows)]_vars

\* A round in which a job that had gone is back and the warning is printed.
C39_Witness ==
    /\ last.result = "ok"
    /\ last.warned # {}
    /\ all_ids = last.prev_ids

\* The loop tasks that have not ended.
LiveTasks == {t \in 1..Len(tasks) : Alive(t)}

\* C33: at most one loop task is alive at any time.
C33_AtMostOneLoop == Cardinality(LiveTasks) <= 1

\* C34: looping_info is Some only while a loop task is alive.
C34_LoopInfoOnlyWhileAlive == looping_info # None => LiveTasks # {}

\* The identifiers the closure of job j inserts into the set n.
InsertedBy(j, n) ==
    {JobWorker(fs_jobs[j], <<>>).inserts[i].id :
        i \in {k \in 1..Len(JobWorker(fs_jobs[j], <<>>).inserts) :
                  JobWorker(fs_jobs[j], <<>>).inserts[k].set = n}}

\* C31: a closure that is about to insert into a set holds the write guard
\* of that set, and a set changes only in a step of the closure that holds
\* its guard; no closure holds the guards of two sets; and when every closure
\* has returned each set is the union of what the closures inserted into it.
C31_SetsUnderWriteLock ==
    /\ [](\A j \in DOMAIN closures :
            /\ closures[j].pc = "locked" => sets[closures[j].ops[1].set].writer = Some(j)
            /\ Cardinality({n \in SetNames : sets[n].writer = Some(j)}) <= 1)
    /\ []((\A j \in DOMAIN closures : closures[j].pc = "done") =>
            \A n \in SetNames :
                sets[n].val = UNION {InsertedBy(j, n) : j \in DOMAIN closures})
    /\ [][\A n \in SetNames :
            sets'[n].val # sets[n].val =>
                \E j \in DOMAIN closures :
                    /\ sets[n].writer = Some(j)
                    /\ closures'[j] # closures[j]]_vars

\* One closure holds the guard of a set while the other is at an insertion
\* into the same set.
C31_Witness ==
    \E j, k \in DOMAIN closures :
        /\ j # k
        /\ closures[j].pc = "locked" /\ closures[k].pc = "run"
        /\ closures[k].ops[1].set = closures[j].ops[1].set
        /\ sets[closures[j].ops[1].set].val # {}
====
